---- MODULE Spec2Model ----
(***************************************************************************)
(* strikemd: the annotation protocol.  Text is modelled as a sequence of   *)
(* one-character strings, offsets are 0-based as in the source, and every  *)
(* regular expression of the source is spelled out as an operator that     *)
(* finds the same match the JavaScript engine finds.                       *)
(***************************************************************************)
EXTENDS Integers, Sequences, FiniteSets, Bags, TLC

\* ------------------------------------------------------------------------
\* Text primitives (JavaScript String methods)
\* ------------------------------------------------------------------------

\* null / undefined: a value no text is equal to
Null == <<"NULL">>

Min(S) == CHOOSE x \in S : \A y \in S : x <= y

Max(S) == CHOOSE x \in S : \A y \in S : x >= y

\* the least element of S, or d when S is empty
MinOr(S, d) == IF S = {} THEN d ELSE Min(S)

\* s.slice(a, b)
Slice(s, a, b) == SubSeq(s, a + 1, b)

\* s.slice(a)
SliceFrom(s, a) == SubSeq(s, a + 1, Len(s))

\* s.startsWith(lit, i)
StartsWithAt(s, i, lit) ==
  /\ i >= 0
  /\ i + Len(lit) <= Len(s)
  /\ \A k \in 1..Len(lit) : s[i + k] = lit[k]

\* s.indexOf(lit, i); -1 when lit does not occur at or after i
IndexOfFrom(s, lit, i) ==
  MinOr({k \in i..(Len(s) - Len(lit)) : StartsWithAt(s, k, lit)}, -1)

\* the class \s of the regular expressions, and the characters trim() removes
IsWs(c) == c \in {" ", "\n", "\t", "\r"}

\* the characters a dot of a regular expression without the s flag refuses
IsLineTerminator(c) == c \in {"\n", "\r"}

IsDigit(c) == c \in {"0", "1", "2", "3", "4", "5", "6", "7", "8", "9"}

\* the offset reached by a greedy \s* started at offset i
SkipWs(s, i) == Min({k \in i..Len(s) : k = Len(s) \/ ~IsWs(s[k + 1])})

\* s.trimEnd()
TrimEnd(s) ==
  SubSeq(s, 1, Min({k \in 0..Len(s) : \A j \in (k + 1)..Len(s) : IsWs(s[j])}))

\* s.trimStart()
TrimStart(s) == SliceFrom(s, SkipWs(s, 0))

\* s.trim()
Trim(s) == TrimEnd(TrimStart(s))

\* s.replace(/lit/g, rep) for a literal pattern; k is the first occurrence
RECURSIVE ReplaceAllLit(_, _, _)
ReplaceAllAt(s, lit, rep, k) ==
  IF k = -1 THEN s
  ELSE Slice(s, 0, k) \o rep \o ReplaceAllLit(SliceFrom(s, k + Len(lit)), lit, rep)

ReplaceAllLit(s, lit, rep) == ReplaceAllAt(s, lit, rep, IndexOfFrom(s, lit, 0))

\* ------------------------------------------------------------------------
\* Literals of the wire grammar
\* ------------------------------------------------------------------------

Quote == <<"\"">>
Amp == <<"&">>
Gt == <<">">>
QuotEntity == <<"&", "q", "u", "o", "t", ";">>
AmpEntity == <<"&", "a", "m", "p", ";">>
DelTag == <<"d", "e", "l">>
InsTag == <<"i", "n", "s">>
CommentAttr == <<"c", "o", "m", "m", "e", "n", "t", "=", "\"">>
ReplaceWithAttr == <<"r", "e", "p", "l", "a", "c", "e", "W", "i", "t", "h", "=", "\"">>
OpenLit(tag) == <<"<">> \o tag
CloseLit(tag) == <<"<", "/">> \o tag \o <<">">>

\* an unescaping that replaces &amp; before &quot;
unescapeAttrAmpFirst(s) == ReplaceAllLit(ReplaceAllLit(s, AmpEntity, Amp), QuotEntity, Quote)

\* .replace(/&quot;/g, '"').replace(/&amp;/g, "&")
unescapeAttr(s) == ReplaceAllLit(ReplaceAllLit(s, QuotEntity, Quote), AmpEntity, Amp)

NoMatch == [ok |-> FALSE]

\* <TAG\s+comment="([^"]*)"(?:\s+replaceWith="([^"]*)")?>  anchored at offset i.
\* rw says what the expression does with the replaceWith group:
\*   "opt" it is optional, "req" it is required, "no" the expression has none.
\* The stages below follow the expression from left to right; every choice
\* the engine could backtrack over is forced by the next literal.

\* ... replaceWith="[^"]*" ends at the quote at offset re; then >
OpenTagAfterReplaceWith(s, cs, ce, rs, re) ==
  IF StartsWithAt(s, re + 1, Gt)
  THEN [ok |-> TRUE, comment |-> Slice(s, cs, ce), replaceWith |-> Slice(s, rs, re),
        end |-> re + 2]
  ELSE NoMatch

\* the comment is s[cs..ce); w is where the white space after its quote ends
OpenTagAfterComment(s, cs, ce, w, rw) ==
  IF /\ rw # "no"
     /\ w > ce + 1
     /\ StartsWithAt(s, w, ReplaceWithAttr)
     /\ IndexOfFrom(s, Quote, w + Len(ReplaceWithAttr)) # -1
  THEN OpenTagAfterReplaceWith(s, cs, ce, w + Len(ReplaceWithAttr),
                               IndexOfFrom(s, Quote, w + Len(ReplaceWithAttr)))
  ELSE IF rw # "req" /\ StartsWithAt(s, ce + 1, Gt)
  THEN [ok |-> TRUE, comment |-> Slice(s, cs, ce), replaceWith |-> Null, end |-> ce + 2]
  ELSE NoMatch

\* [^"]*" : the comment runs from cs to the next quote, at offset ce
OpenTagComment(s, cs, ce, rw) ==
  IF ce = -1 THEN NoMatch ELSE OpenTagAfterComment(s, cs, ce, SkipWs(s, ce + 1), rw)

\* \s+comment=" : a is the offset after <TAG, b the offset after the white space
OpenTagAttr(s, a, b, rw) ==
  IF b = a \/ ~StartsWithAt(s, b, CommentAttr) THEN NoMatch
  ELSE OpenTagComment(s, b + Len(CommentAttr),
                      IndexOfFrom(s, Quote, b + Len(CommentAttr)), rw)

OpenTagAt(s, i, tag, rw) ==
  IF ~StartsWithAt(s, i, OpenLit(tag)) THEN NoMatch
  ELSE OpenTagAttr(s, i + Len(OpenLit(tag)), SkipWs(s, i + Len(OpenLit(tag))), rw)

\* <TAG ...>([\s\S]*?)<\/TAG>  anchored at offset i: the lazy body ends at the
\* first closing tag after the opening one (o), found at offset c.
TagMatchClose(s, i, tag, o, c) ==
  IF c = -1 THEN NoMatch
  ELSE [ok |-> TRUE, tag |-> tag, comment |-> o.comment,
        replaceWith |-> o.replaceWith, content |-> Slice(s, o.end, c),
        start |-> i, end |-> c + Len(CloseLit(tag))]

TagMatchBody(s, i, tag, o) ==
  IF ~o.ok THEN NoMatch
  ELSE TagMatchClose(s, i, tag, o, IndexOfFrom(s, CloseLit(tag), o.end))

TagMatchAt(s, i, tag, rw) == TagMatchBody(s, i, tag, OpenTagAt(s, i, tag, rw))

\* the alternation (del|ins): the first alternative that matches
FirstMatch(m1, m2) == IF m1.ok THEN m1 ELSE m2

\* CHANGE_RE anchored at offset i
ChangeMatchAt(s, i) ==
  FirstMatch(TagMatchAt(s, i, DelTag, "opt"), TagMatchAt(s, i, InsTag, "opt"))

\* the offset of the leftmost match of CHANGE_RE at or after offset i (-1: none)
NextChangeFrom(s, i) == MinOr({k \in i..(Len(s) - 1) : ChangeMatchAt(s, k).ok}, -1)

\* the record parseChanges pushes for one match m of CHANGE_RE
ChangeOf(s, m, idx) ==
  [index |-> idx,
   comment |-> unescapeAttr(m.comment),
   deleted |-> IF m.tag = DelTag THEN m.content ELSE Null,
   inserted |-> IF m.tag = DelTag
                THEN (IF m.replaceWith # Null THEN unescapeAttr(m.replaceWith) ELSE Null)
                ELSE m.content,
   fullMatch |-> Slice(s, m.start, m.end),
   startOffset |-> m.start,
   endOffset |-> m.end]

\* the exec loop of parseChanges: lastIndex is i, idx changes are pushed already
RECURSIVE parseChangesFrom(_, _, _)
parseChangesPush(s, m, idx) ==
  <<ChangeOf(s, m, idx)>> \o parseChangesFrom(s, m.end, idx + 1)

parseChangesNext(s, k, idx) ==
  IF k = -1 THEN <<>> ELSE parseChangesPush(s, ChangeMatchAt(s, k), idx)

parseChangesFrom(s, i, idx) == parseChangesNext(s, NextChangeFrom(s, i), idx)

\* parseChanges(annotated)
parseChanges(s) == parseChangesFrom(s, 0, 0)

\* the offset of the leftmost match of <TAG ...>...</TAG> at or after i (-1: none)
NextTagFrom(s, i, tag, rw) ==
  MinOr({k \in i..(Len(s) - 1) : TagMatchAt(s, k, tag, rw).ok}, -1)

\* s.replace(/<TAG ...>([\s\S]*?)<\/TAG>/g, keep ? '$1' : ''), from offset i on
RECURSIVE StripTagFrom(_, _, _, _, _)
StripTagMatch(s, i, tag, rw, keep, m) ==
  Slice(s, i, m.start) \o (IF keep THEN m.content ELSE <<>>)
    \o StripTagFrom(s, m.end, tag, rw, keep)

StripTagNext(s, i, tag, rw, keep, k) ==
  IF k = -1 THEN SliceFrom(s, i)
  ELSE StripTagMatch(s, i, tag, rw, keep, TagMatchAt(s, k, tag, rw))

StripTagFrom(s, i, tag, rw, keep) ==
  StripTagNext(s, i, tag, rw, keep, NextTagFrom(s, i, tag, rw))

StripTag(s, tag, rw, keep) == StripTagFrom(s, 0, tag, rw, keep)

\* recoverOriginal(annotated): deletions keep their body, insertions vanish
recoverOriginal(s) == StripTag(StripTag(s, DelTag, "opt", TRUE), InsTag, "no", FALSE)

\* s.replace(/<del\s+comment="[^"]*"\s+replaceWith="([^"]*)">([\s\S]*?)<\/del>/g,
\*           (_m, replaceWith) => unescaped replaceWith), from offset i on
RECURSIVE AcceptReplFrom(_, _)
AcceptReplMatch(s, i, m) ==
  Slice(s, i, m.start) \o unescapeAttr(m.replaceWith) \o AcceptReplFrom(s, m.end)

AcceptReplNext(s, i, k) ==
  IF k = -1 THEN SliceFrom(s, i)
  ELSE AcceptReplMatch(s, i, TagMatchAt(s, k, DelTag, "req"))

AcceptReplFrom(s, i) == AcceptReplNext(s, i, NextTagFrom(s, i, DelTag, "req"))

\* acceptAll(annotated): replacements give their text, deletions vanish,
\* insertions keep their body
acceptAll(s) ==
  StripTag(StripTag(AcceptReplFrom(s, 0), DelTag, "no", FALSE), InsTag, "no", TRUE)

\* applyDecisions(annotated, decisions): decisions[i + 1] is "accept", "reject"
\* or "" (no decision) for change i; chs is the parsed change list
decidedText(change, decision) ==
  IF decision = "accept" THEN (IF change.inserted = Null THEN <<>> ELSE change.inserted)
  ELSE IF decision = "reject" THEN (IF change.deleted = Null THEN <<>> ELSE change.deleted)
  ELSE change.fullMatch

RECURSIVE applyDecisionsLoop(_, _, _, _, _)
applyDecisionsLoop(s, chs, decisions, i, cursor) ==
  IF i > Len(chs) THEN SliceFrom(s, cursor)
  ELSE Slice(s, cursor, chs[i].startOffset) \o decidedText(chs[i], decisions[i])
         \o applyDecisionsLoop(s, chs, decisions, i + 1, chs[i].endOffset)

applyDecisions(s, decisions) == applyDecisionsLoop(s, parseChanges(s), decisions, 1, 0)

\* s.includes(lit)
Includes(s, lit) == IndexOfFrom(s, lit, 0) # -1

\* the loop of validate over the changes, from change i on
RECURSIVE validateChanges(_, _)
validateChanges(chs, i) ==
  IF i > Len(chs) THEN <<>>
  ELSE (IF chs[i].deleted = Null /\ chs[i].inserted = Null
        THEN <<[kind |-> "neither", change |-> i - 1]>> ELSE <<>>)
         \o validateChanges(chs, i + 1)

\* recovered.includes("<del ") || recovered.includes("<ins ")
validateRecovered(recovered) ==
  IF \/ Includes(recovered, OpenLit(DelTag) \o <<" ">>)
     \/ Includes(recovered, OpenLit(InsTag) \o <<" ">>)
  THEN <<[kind |-> "artifacts", change |-> -1]>> ELSE <<>>

\* validate(annotated): the problems it returns, in order
validate(annotated) ==
  validateChanges(parseChanges(annotated), 1) \o validateRecovered(recoverOriginal(annotated))

\* ------------------------------------------------------------------------
\* Block judgments (src/reconstruct.ts)
\* ------------------------------------------------------------------------

Newline == <<"\n">>

\* s.split("\n")
RECURSIVE SplitLines(_)
SplitLinesAt(s, k) ==
  IF k = -1 THEN <<s>> ELSE <<Slice(s, 0, k)>> \o SplitLines(SliceFrom(s, k + 1))

SplitLines(s) == SplitLinesAt(s, IndexOfFrom(s, Newline, 0))

\* lines.join(sep)
RECURSIVE Join(_, _)
Join(lines, sep) ==
  IF lines = <<>> THEN <<>>
  ELSE IF Len(lines) = 1 THEN lines[1]
  ELSE lines[1] \o sep \o Join(Tail(lines), sep)

DigitVal(c) ==
  CASE c = "0" -> 0 [] c = "1" -> 1 [] c = "2" -> 2 [] c = "3" -> 3 [] c = "4" -> 4
    [] c = "5" -> 5 [] c = "6" -> 6 [] c = "7" -> 7 [] c = "8" -> 8 [] c = "9" -> 9

\* parseInt(digits, 10) for a non-empty run of digits
RECURSIVE parseInt(_)
parseInt(digits) ==
  IF Len(digits) = 1 THEN DigitVal(digits[1])
  ELSE 10 * parseInt(SubSeq(digits, 1, Len(digits) - 1)) + DigitVal(digits[Len(digits)])

\* the offset at which a greedy \d+ started at offset 0 stops
DigitsEnd(s) == Min({k \in 0..Len(s) : k = Len(s) \/ ~IsDigit(s[k + 1])})

\* the offset at which a greedy .* started at offset i stops: the end of the
\* text with the s flag (dotAll), the first line terminator without it
DotStarEnd(s, i, dotAll) ==
  IF dotAll THEN Len(s)
  ELSE Min({k \in i..Len(s) : k = Len(s) \/ IsLineTerminator(s[k + 1])})

\* line.match(/^(\d+)\s+(.*)/) and, with dotAll, /^(\d+)\s+(.*)/s : d is where
\* the digits end and w where the white space after them ends
NumberedLineAt(s, d, w, dotAll) ==
  IF d = 0 \/ w = d THEN NoMatch
  ELSE [ok |-> TRUE, num |-> parseInt(Slice(s, 0, d)),
        content |-> Slice(s, w, DotStarEnd(s, w, dotAll))]

NumberedLineFrom(s, d, dotAll) == NumberedLineAt(s, d, SkipWs(s, d), dotAll)

NumberedLine(s, dotAll) == NumberedLineFrom(s, DigitsEnd(s), dotAll)

\* a Map<number, string> is a function from the set of its keys
EmptyMap == <<>>

\* map.set(k, v)
MapSet(m, k, v) == [x \in DOMAIN m \cup {k} |-> IF x = k THEN v ELSE m[x]]

\* no block number yet (currentNum === null)
NoNum == -1

\* the running state of both line parsers: the map, the number and the
\* content of the judgment being read
LineState(result, num, content) ==
  [result |-> result, currentNum |-> num, currentContent |-> content]

\* "save previous block if any"
saveBlock(st) ==
  IF st.currentNum = NoNum THEN st.result
  ELSE MapSet(st.result, st.currentNum, Trim(st.currentContent))

\* the body of the loop of parseModelOutput for one line, m its match
parseLineWith(st, line, m) ==
  IF m.ok THEN LineState(saveBlock(st), m.num, m.content)
  ELSE IF st.currentNum # NoNum /\ Trim(line) # <<>>
  THEN LineState(st.result, st.currentNum, st.currentContent \o Newline \o line)
  ELSE st

parseLine(st, line) == parseLineWith(st, line, NumberedLine(line, FALSE))

RECURSIVE parseLines(_, _, _)
parseLines(st, lines, i) ==
  IF i > Len(lines) THEN st ELSE parseLines(parseLine(st, lines[i]), lines, i + 1)

\* parseModelOutput(output)
parseModelOutput(output) ==
  saveBlock(parseLines(LineState(EmptyMap, NoNum, <<>>), SplitLines(output), 1))

\* --- annotation tags as the model (and mergeAdjacentAnnotations) writes them
DelSpan(comment, body) ==
  OpenLit(DelTag) \o <<" ">> \o CommentAttr \o comment \o <<"\"", ">">> \o body
    \o CloseLit(DelTag)

ReplSpan(comment, rw, body) ==
  OpenLit(DelTag) \o <<" ">> \o CommentAttr \o comment \o <<"\"", " ">>
    \o ReplaceWithAttr \o rw \o <<"\"", ">">> \o body \o CloseLit(DelTag)

InsSpan(comment, body) ==
  OpenLit(InsTag) \o <<" ">> \o CommentAttr \o comment \o <<"\"", ">">> \o body
    \o CloseLit(InsTag)

\* stripAnnotations(text)
stripAnnotations(s) == StripTag(StripTag(s, DelTag, "opt", TRUE), InsTag, "no", FALSE)

\* escapeAttr(s)
escapeAttr(s) == ReplaceAllLit(ReplaceAllLit(s, Amp, AmpEntity), Quote, QuotEntity)

\* <A comment="([^"]*)">([\s\S]*?)<\/A>\s*<B comment="[^"]*">([\s\S]*?)<\/B>
\* anchored at offset i, (A, B) being (del, ins) or (ins, del).  The lazy body of
\* A ends at the first </A> that white space and a whole B span follow; o is the
\* opening tag of A, j the offset of that </A>, second the B span.
PairMatchWith(s, i, first, o, j, second) ==
  [ok |-> TRUE, start |-> i, end |-> second.end,
   comment |-> IF first = DelTag THEN o.comment ELSE second.comment,
   delContent |-> IF first = DelTag THEN Slice(s, o.end, j) ELSE second.content,
   insContent |-> IF first = DelTag THEN second.content ELSE Slice(s, o.end, j)]

SecondSpanAfter(s, j, first, second) ==
  TagMatchAt(s, SkipWs(s, j + Len(CloseLit(first))), second, "no")

PairMatchClose(s, i, first, second, o, j) ==
  IF j = -1 THEN NoMatch
  ELSE PairMatchWith(s, i, first, o, j, SecondSpanAfter(s, j, first, second))

PairMatchBody(s, i, first, second, o) ==
  IF ~o.ok THEN NoMatch
  ELSE PairMatchClose(s, i, first, second, o,
         MinOr({j \in o.end..(Len(s) - 1) :
                  /\ StartsWithAt(s, j, CloseLit(first))
                  /\ SecondSpanAfter(s, j, first, second).ok}, -1))

PairMatchAt(s, i, first, second) ==
  PairMatchBody(s, i, first, second, OpenTagAt(s, i, first, "no"))

NextPairFrom(s, i, first, second) ==
  MinOr({k \in i..(Len(s) - 1) : PairMatchAt(s, k, first, second).ok}, -1)

\* text.replace(/<A ...>...<\/A>\s*<B ...>...<\/B>/g, m => `<del comment="${comment}"
\* replaceWith="${escapeAttr(insContent)}">${delContent}</del>`), from offset i on
RECURSIVE MergePairsFrom(_, _, _, _)
MergePairMatch(s, i, first, second, m) ==
  Slice(s, i, m.start) \o ReplSpan(m.comment, escapeAttr(m.insContent), m.delContent)
    \o MergePairsFrom(s, m.end, first, second)

MergePairNext(s, i, first, second, k) ==
  IF k = -1 THEN SliceFrom(s, i)
  ELSE MergePairMatch(s, i, first, second, PairMatchAt(s, k, first, second))

MergePairsFrom(s, i, first, second) ==
  MergePairNext(s, i, first, second, NextPairFrom(s, i, first, second))

\* mergeAdjacentAnnotations(text): del+ins pairs first, then ins+del pairs
mergeAdjacentAnnotations(s) ==
  MergePairsFrom(MergePairsFrom(s, 0, DelTag, InsTag), 0, InsTag, DelTag)

TripleDash == <<"-", "-", "-", "\n">>
ClosingDash == <<"\n", "-", "-", "-", "\n">>
\* the backquote, which the lexer of TLA+ refuses inside a string: the texts of
\* the model write it as this token
Backquote == "BQ"

Fence == <<Backquote, Backquote, Backquote>>

\* markdown.match(/^(---\n[\s\S]*?\n---\n)/): the length of the match, 0 if none;
\* k is the offset of the first closing line after the opening one
frontmatterLenAt(k) == IF k = -1 THEN 0 ELSE k + Len(ClosingDash)

frontmatterLen(s) ==
  IF ~StartsWithAt(s, 0, TripleDash) THEN 0
  ELSE frontmatterLenAt(IndexOfFrom(s, ClosingDash, Len(TripleDash)))

\* the locals of the loop of splitIntoBlocks
SplitState(blocks, current, inFence, blankRun) ==
  [blocks |-> blocks, current |-> current, inFence |-> inFence, blankRun |-> blankRun]

\* a segmenter for which a blank line separates wherever it stands
splitLineInBlind(st, line, inFence) ==
  IF Trim(line) = <<>>
  THEN SplitState(st.blocks, st.current, inFence, st.blankRun \/ Trim(st.current) # <<>>)
  ELSE IF st.blankRun /\ Trim(st.current) # <<>>
  THEN SplitState(Append(st.blocks, TrimEnd(st.current)), line, inFence, FALSE)
  ELSE SplitState(st.blocks,
                  (IF st.current # <<>> THEN st.current \o Newline ELSE <<>>) \o line,
                  inFence, st.blankRun)

\* the body of the loop once inFence is up to date
splitLineIn(st, line, inFence) ==
  IF ~inFence /\ Trim(line) = <<>>
  THEN SplitState(st.blocks, st.current, inFence, st.blankRun \/ Trim(st.current) # <<>>)
  ELSE IF st.blankRun /\ Trim(st.current) # <<>>
  THEN SplitState(Append(st.blocks, TrimEnd(st.current)), line, inFence, FALSE)
  ELSE SplitState(st.blocks,
                  (IF st.current # <<>> THEN st.current \o Newline ELSE <<>>) \o line,
                  inFence, st.blankRun)

\* a segmenter that takes only a bare fence marker for a fence
splitLineBareFence(st, line) ==
  splitLineIn(st, line, IF line = Fence THEN ~st.inFence ELSE st.inFence)

splitLine(st, line) ==
  splitLineIn(st, line, IF StartsWithAt(line, 0, Fence) THEN ~st.inFence ELSE st.inFence)

RECURSIVE splitLines(_, _, _)
splitLines(st, lines, i) ==
  IF i > Len(lines) THEN st ELSE splitLines(splitLine(st, lines[i]), lines, i + 1)

\* a segmenter that pushes the last block as it stands
splitFlushUntrimmed(st) ==
  IF Trim(st.current) # <<>> THEN Append(st.blocks, st.current) ELSE st.blocks

splitFlush(st) ==
  IF Trim(st.current) # <<>> THEN Append(st.blocks, TrimEnd(st.current)) ELSE st.blocks

splitBody(body) ==
  splitFlush(splitLines(SplitState(<<>>, <<>>, FALSE, FALSE), SplitLines(body), 1))

\* splitIntoBlocks(markdown), n being the length of the frontmatter
splitIntoBlocksAt(s, n) ==
  [frontmatter |-> Slice(s, 0, n), blocks |-> splitBody(SliceFrom(s, n))]

splitIntoBlocks(s) == splitIntoBlocksAt(s, frontmatterLen(s))

Lgtm == <<"l", "g", "t", "m">>

BlankLine == <<"\n", "\n">>

\* a reconstruction that falls back on the original block on a mismatch
reconstructMergedStrict(acc, blockNum, original, merged) ==
  IF stripAnnotations(merged) # original
  THEN [resultBlocks |-> Append(acc.resultBlocks, original),
        warnings |-> Append(acc.warnings, [block |-> blockNum, kind |-> "modified"])]
  ELSE [resultBlocks |-> Append(acc.resultBlocks, merged), warnings |-> acc.warnings]

\* the body of the loop of reconstruct for block blockNum once the judgment is
\* merged: acc holds resultBlocks and warnings
reconstructMerged(acc, blockNum, original, merged) ==
  [resultBlocks |-> Append(acc.resultBlocks, merged),
   warnings |-> IF stripAnnotations(merged) # original
                THEN Append(acc.warnings, [block |-> blockNum, kind |-> "modified"])
                ELSE acc.warnings]

reconstructBlock(acc, parsedOutput, blockNum, original) ==
  IF blockNum \notin DOMAIN parsedOutput
  THEN [resultBlocks |-> Append(acc.resultBlocks, original),
        warnings |-> Append(acc.warnings, [block |-> blockNum, kind |-> "missing"])]
  ELSE IF parsedOutput[blockNum] = Lgtm
  THEN [resultBlocks |-> Append(acc.resultBlocks, original), warnings |-> acc.warnings]
  ELSE reconstructMerged(acc, blockNum, original,
                         mergeAdjacentAnnotations(parsedOutput[blockNum]))

RECURSIVE reconstructLoop(_, _, _, _)
reconstructLoop(acc, parsedOutput, originalBlocks, i) ==
  IF i > Len(originalBlocks) THEN acc
  ELSE reconstructLoop(reconstructBlock(acc, parsedOutput, i, originalBlocks[i]),
                       parsedOutput, originalBlocks, i + 1)

reconstructResult(frontmatter, acc) ==
  [annotated |-> frontmatter \o Join(acc.resultBlocks, BlankLine),
   warnings |-> acc.warnings]

\* reconstruct(parsedOutput, frontmatter, originalBlocks)
reconstruct(parsedOutput, frontmatter, originalBlocks) ==
  reconstructResult(frontmatter,
    reconstructLoop([resultBlocks |-> <<>>, warnings |-> <<>>],
                    parsedOutput, originalBlocks, 1))

\* ------------------------------------------------------------------------
\* Compact judgments: <strike> spans spliced into the block
\* ------------------------------------------------------------------------

StrikeTag == <<"s", "t", "r", "i", "k", "e">>

\* <del> and <ins> inside a strike span carry no attribute
PlainOpen(tag) == OpenLit(tag) \o Gt

\* \s*<\/strike> read at offset p: the offset after it, -1 when it is not there
StrikeCloseAt(s, p) ==
  IF StartsWithAt(s, SkipWs(s, p), CloseLit(StrikeTag))
  THEN SkipWs(s, p) + Len(CloseLit(StrikeTag))
  ELSE -1

\* (?:<B>([\s\S]*?)<\/B>)? read at offset q: the offset of the first </B> that
\* the end of the strike span follows, -1 when the group matches nothing
SecondClose(s, q, second) ==
  IF ~StartsWithAt(s, q, PlainOpen(second)) THEN -1
  ELSE MinOr({j \in (q + Len(PlainOpen(second)))..(Len(s) - 1) :
                /\ StartsWithAt(s, j, CloseLit(second))
                /\ StrikeCloseAt(s, j + Len(CloseLit(second))) # -1}, -1)

\* where the white space after the first sub-span, closed at offset j, ends
AfterFirst(s, j, first) == SkipWs(s, j + Len(CloseLit(first)))

\* the lazy body of the first sub-span may end at offset j
FirstCloseOk(s, j, first, second) ==
  /\ StartsWithAt(s, j, CloseLit(first))
  /\ \/ SecondClose(s, AfterFirst(s, j, first), second) # -1
     \/ StrikeCloseAt(s, j + Len(CloseLit(first))) # -1

\* the match once the first body ends at j and the second at j2 (-1: no second)
StrikeAltWith(s, i, o, p, first, second, j, j2) ==
  [ok |-> TRUE, start |-> i, comment |-> o.comment,
   end |-> IF j2 = -1 THEN StrikeCloseAt(s, j + Len(CloseLit(first)))
           ELSE StrikeCloseAt(s, j2 + Len(CloseLit(second))),
   deleted |-> IF first = DelTag THEN Slice(s, p + Len(PlainOpen(first)), j)
               ELSE IF j2 = -1 THEN Null
               ELSE Slice(s, AfterFirst(s, j, first) + Len(PlainOpen(second)), j2),
   inserted |-> IF first = InsTag THEN Slice(s, p + Len(PlainOpen(first)), j)
                ELSE IF j2 = -1 THEN Null
                ELSE Slice(s, AfterFirst(s, j, first) + Len(PlainOpen(second)), j2)]

StrikeAltClose(s, i, o, p, first, second, j) ==
  IF j = -1 THEN NoMatch
  ELSE StrikeAltWith(s, i, o, p, first, second, j,
                     SecondClose(s, AfterFirst(s, j, first), second))

\* one alternative of STRIKE_RE, its first sub-span read at offset p
StrikeAlt(s, i, o, p, first, second) ==
  IF ~StartsWithAt(s, p, PlainOpen(first)) THEN NoMatch
  ELSE StrikeAltClose(s, i, o, p, first, second,
         MinOr({j \in (p + Len(PlainOpen(first)))..(Len(s) - 1) :
                  FirstCloseOk(s, j, first, second)}, -1))

StrikeMatchOpen(s, i, o) ==
  IF ~o.ok THEN NoMatch
  ELSE FirstMatch(StrikeAlt(s, i, o, SkipWs(s, o.end), DelTag, InsTag),
                  StrikeAlt(s, i, o, SkipWs(s, o.end), InsTag, DelTag))

\* STRIKE_RE anchored at offset i
StrikeMatchAt(s, i) == StrikeMatchOpen(s, i, OpenTagAt(s, i, StrikeTag, "no"))

\* the offset of the leftmost match of STRIKE_RE at or after offset i (-1: none)
NextStrikeFrom(s, i) == MinOr({k \in i..(Len(s) - 1) : StrikeMatchAt(s, k).ok}, -1)

\* annotated.replace(STRIKE_RE, (m, c, del1, ins1, ins2, del2) => del1 ?? del2 ?? "")
RECURSIVE recoverStrikeFrom(_, _)
recoverStrikeMatch(s, i, m) ==
  Slice(s, i, m.start) \o (IF m.deleted = Null THEN <<>> ELSE m.deleted)
    \o recoverStrikeFrom(s, m.end)

recoverStrikeNext(s, i, k) ==
  IF k = -1 THEN SliceFrom(s, i) ELSE recoverStrikeMatch(s, i, StrikeMatchAt(s, k))

recoverStrikeFrom(s, i) == recoverStrikeNext(s, i, NextStrikeFrom(s, i))

\* recoverOriginal(annotated) of the strike grammar
recoverOriginalStrike(s) == recoverStrikeFrom(s, 0)

\* the exec loop of the compact reconstruct: each match with the text before it
\* (an anchor) in front
RECURSIVE annotationsFrom(_, _)
fullAnnotation(prefix, tag) == IF prefix # <<>> THEN prefix \o <<" ">> \o tag ELSE tag

annotationsMatch(s, lastEnd, m) ==
  <<fullAnnotation(Trim(Slice(s, lastEnd, m.start)), Slice(s, m.start, m.end))>>
    \o annotationsFrom(s, m.end)

annotationsNext(s, lastEnd, k) ==
  IF k = -1 THEN <<>> ELSE annotationsMatch(s, lastEnd, StrikeMatchAt(s, k))

annotationsFrom(s, lastEnd) == annotationsNext(s, lastEnd, NextStrikeFrom(s, lastEnd))

Spliced(result, warning) == [result |-> result, warning |-> warning]

\* the deletion branch: delText is the body of the first <del> of the annotation
spliceDeletion(original, annotation, delText, idx) ==
  IF idx = -1 THEN Spliced(original, "del not found")
  ELSE Spliced(Slice(original, 0, idx) \o annotation
                 \o SliceFrom(original, idx + Len(delText)), "")

\* the anchored insertion
spliceAtAnchor(original, annotation, strikeIdx, anchor, anchorIdx) ==
  IF anchorIdx = -1 THEN Spliced(original, "anchor not found")
  ELSE Spliced(Slice(original, 0, anchorIdx + Len(anchor)) \o <<" ">>
                 \o SliceFrom(annotation, strikeIdx)
                 \o SliceFrom(original, anchorIdx + Len(anchor)), "")

spliceAnchored(original, annotation, strikeIdx, anchor) ==
  spliceAtAnchor(original, annotation, strikeIdx, anchor, IndexOfFrom(original, anchor, 0))

spliceInsertion(original, annotation, strikeIdx) ==
  IF strikeIdx > 0
  THEN spliceAnchored(original, annotation, strikeIdx,
                      TrimEnd(Slice(annotation, 0, strikeIdx)))
  ELSE Spliced(original \o <<" ">> \o annotation, "no anchor")

\* annotation.match(/<del>([\s\S]*?)<\/del>/): d is the offset of the first
\* <del>, c that of the first </del> after it
spliceWithDel(original, annotation, d, c) ==
  IF d # -1 /\ c # -1
  THEN spliceDeletion(original, annotation, Slice(annotation, d + Len(PlainOpen(DelTag)), c),
         IndexOfFrom(original, Slice(annotation, d + Len(PlainOpen(DelTag)), c), 0))
  ELSE spliceInsertion(original, annotation, IndexOfFrom(annotation, OpenLit(StrikeTag), 0))

spliceFirstDel(original, annotation, d) ==
  spliceWithDel(original, annotation, d,
    IF d = -1 THEN -1
    ELSE IndexOfFrom(annotation, CloseLit(DelTag), d + Len(PlainOpen(DelTag))))

\* spliceAnnotation(original, annotation)
spliceAnnotation(original, annotation) ==
  spliceFirstDel(original, annotation, IndexOfFrom(annotation, PlainOpen(DelTag), 0))

\* the for loop over the annotations of one block: cur holds block, the
\* warnings, and the calls made (what each was given and what it returned)
spliceStep(cur, blockNum, annotation, r) ==
  [block |-> r.result,
   warnings |-> IF r.warning # ""
                THEN Append(cur.warnings, [block |-> blockNum, kind |-> r.warning])
                ELSE cur.warnings,
   splices |-> Append(cur.splices, [block |-> blockNum, given |-> cur.block,
                                    annotation |-> annotation, result |-> r.result,
                                    warning |-> r.warning])]

RECURSIVE spliceAll(_, _, _, _)
spliceAll(cur, blockNum, annotations, i) ==
  IF i > Len(annotations) THEN cur
  ELSE spliceAll(spliceStep(cur, blockNum, annotations[i],
                            spliceAnnotation(cur.block, annotations[i])),
                 blockNum, annotations, i + 1)

compactPush(acc, cur) ==
  [resultBlocks |-> Append(acc.resultBlocks, cur.block), warnings |-> cur.warnings,
   splices |-> cur.splices]

\* the judgment of the block holds these annotations
compactAnnotated(acc, blockNum, original, annotations) ==
  IF annotations = <<>>
  THEN [resultBlocks |-> Append(acc.resultBlocks, original),
        warnings |-> Append(acc.warnings, [block |-> blockNum, kind |-> "no annotations"]),
        splices |-> acc.splices]
  ELSE compactPush(acc, spliceAll([block |-> original, warnings |-> acc.warnings,
                                   splices |-> acc.splices],
                                  blockNum, annotations, 1))

compactBlock(acc, parsedOutput, blockNum, original) ==
  IF blockNum \notin DOMAIN parsedOutput
  THEN [resultBlocks |-> Append(acc.resultBlocks, original),
        warnings |-> Append(acc.warnings, [block |-> blockNum, kind |-> "missing"]),
        splices |-> acc.splices]
  ELSE IF parsedOutput[blockNum] = Lgtm
  THEN [resultBlocks |-> Append(acc.resultBlocks, original), warnings |-> acc.warnings,
        splices |-> acc.splices]
  ELSE compactAnnotated(acc, blockNum, original,
                        annotationsFrom(parsedOutput[blockNum], 0))

\* the loop of the compact reconstruct(parsedOutput, frontmatter, originalBlocks)
RECURSIVE compactLoop(_, _, _, _)
compactLoop(acc, parsedOutput, originalBlocks, i) ==
  IF i > Len(originalBlocks) THEN acc
  ELSE compactLoop(compactBlock(acc, parsedOutput, i, originalBlocks[i]),
                   parsedOutput, originalBlocks, i + 1)

\* ------------------------------------------------------------------------
\* Session state of the review page (src/ui/app.js)
\* ------------------------------------------------------------------------

VARIABLES
  currentMarkdown,    \* plain text of the document
  annotatedMarkdown,  \* annotated text of the last run, Null before any run
  changes,            \* change list parsed from annotatedMarkdown
  history,            \* undo stack of snapshots
  checkValue,         \* value of the check drop-down ("" when none is chosen)
  runBtnDisabled,     \* disabled attribute of the run button
  bulkShown,          \* the Accept all / Reject all menu is displayed
  statusClass,        \* class of the status line: "" or "error"
  runs,               \* bag of the runCheck invocations in flight
  saves,              \* bodies of the /api/save requests in flight
  sink,               \* content of the file the server writes
  stream,             \* the locals of one streamAnnotation call and what it has yielded
  codec,              \* an original text, the annotated text written from it, its recovery
  engine              \* a document on its way through segmentation and reconstruction

sessionVars == <<currentMarkdown, annotatedMarkdown, changes, history>>

\* the page of the browser
pageVars == <<currentMarkdown, annotatedMarkdown, changes, history, checkValue,
              runBtnDisabled, bulkShown, statusClass, runs, saves>>

\* what no handler of the page touches
offPage == <<sink, stream, codec, engine>>

MAX_HISTORY == 50

\* --- model bounds -------------------------------------------------------
MaxRuns == 2    \* runCheck invocations that may be in flight together
MaxHist == 1    \* Spec stops resolving once the undo stack is this deep
MaxSaves == 2   \* save requests that may be in flight together

\* --- texts of the examples ------------------------------------------------
TheCatSat == <<"T", "h", "e", " ", "c", "a", "t", " ", "s", "a", "t", ".">>

TheCatSits == <<"T", "h", "e", " ", "c", "a", "t", " ", "s", "i", "t", "s", ".">>

\* --- inputs -------------------------------------------------------------

\* 'The cat <del comment="tense" replaceWith="sits">sat</del>.'
Scenario1 ==
  <<"T", "h", "e", " ", "c", "a", "t", " ">>
    \o ReplSpan(<<"t", "e", "n", "s", "e">>, <<"s", "i", "t", "s">>, <<"s", "a", "t">>)
    \o <<".">>

\* contents of the file the page is opened on
Files == {<<"a", "b">>, TheCatSat}

\* an opening deletion tag, as it appears in a text that documents the grammar
OpenDelText == OpenLit(DelTag) \o <<" ">> \o CommentAttr \o <<"q", "\"", ">">>

\* annotated documents a run on plain text p may end with: what reconstruct
\* returns for one judgment of the only block.  On the text of the file the
\* model proposes a replacement and an insertion, or an insertion whose text is
\* markup followed further on by a deletion, or a deletion next to a replacement
\* whose attributes are escaped; on any other text it proposes nothing.
DoneDocs(p) ==
  IF p = TheCatSat THEN {Scenario1}
  ELSE IF p \in Files
  THEN {p,
        ReplSpan(<<"c">>, <<"z">>, <<Head(p)>>) \o Tail(p) \o InsSpan(<<"d">>, <<"y">>),
        InsSpan(<<"c">>, OpenDelText) \o <<Head(p)>> \o DelSpan(<<"d">>, Tail(p)),
        DelSpan(<<"c">>, <<Head(p)>>)
          \o ReplSpan(AmpEntity, QuotEntity \o <<"z">>, Tail(p))}
  ELSE {p}

\* what the user may type into the editable insertion of a card (Null: no edit)
Edits == {Null, <<"w">>}

CheckNames == {"", "check"}

\* --- operations ---------------------------------------------------------

\* a full history that gives up its newest snapshot
shiftNewest(h) == IF Len(h) > MAX_HISTORY THEN SubSeq(h, 1, Len(h) - 1) ELSE h

\* pushHistory()
shiftOver(h) == IF Len(h) > MAX_HISTORY THEN Tail(h) ELSE h

pushHistory(h, a, c, ch) ==
  shiftOver(Append(h, [annotatedMarkdown |-> a, currentMarkdown |-> c, changes |-> ch]))

\* annotatedMarkdown.slice(0, startOffset) + text + annotatedMarkdown.slice(endOffset)
spliceChange(a, change, text) ==
  Slice(a, 0, change.startOffset) \o text \o SliceFrom(a, change.endOffset)

\* a card that always hands back the proposed insertion
cardTextProposed(change, edit) ==
  IF change.inserted = Null THEN <<>> ELSE change.inserted

\* insEl ? insEl.textContent : change.inserted, then ?? "": the card of a change
\* has an editable insertion exactly when change.inserted is not null
cardText(change, edit) ==
  IF change.inserted = Null THEN <<>>
  ELSE IF edit = Null THEN change.inserted ELSE edit

\* change.deleted ?? ""
deletedText(change) == IF change.deleted = Null THEN <<>> ELSE change.deleted

\* resolveCurrentMarkdown()
resolveCurrentMarkdown(a) ==
  StripTag(StripTag(a, DelTag, "opt", TRUE), InsTag, "no", FALSE)

\* the loops of acceptAll / rejectAll: from the last change to the first
RECURSIVE acceptAllLoop(_, _, _, _)
acceptAllLoop(a, chs, edits, i) ==
  IF i = 0 THEN a
  ELSE acceptAllLoop(spliceChange(a, chs[i], cardText(chs[i], edits[i])), chs, edits, i - 1)

RECURSIVE rejectAllLoop(_, _, _)
rejectAllLoop(a, chs, i) ==
  IF i = 0 THEN a
  ELSE rejectAllLoop(spliceChange(a, chs[i], deletedText(chs[i])), chs, i - 1)

\* an afterMutation that saves the plain text it started from
afterMutationStale(a) ==
  /\ annotatedMarkdown' = a
  /\ currentMarkdown' = resolveCurrentMarkdown(a)
  /\ changes' = parseChanges(a)
  /\ bulkShown' = (changes' # <<>>)
  /\ statusClass' = ""
  /\ saves' = Append(saves, currentMarkdown)

\* afterMutation(): derive the plain text, parse the changes, save
afterMutation(a) ==
  /\ annotatedMarkdown' = a
  /\ currentMarkdown' = resolveCurrentMarkdown(a)
  /\ changes' = parseChanges(a)
  /\ bulkShown' = (changes' # <<>>)
  /\ statusClass' = ""
  /\ saves' = Append(saves, currentMarkdown')

\* acceptChange(ci), the card's insertion edited to `edit` beforehand
AcceptChange(ci, edit) ==
  /\ ci + 1 \in DOMAIN changes
  /\ edit # Null => changes[ci + 1].inserted # Null
  /\ Len(saves) < MaxSaves
  /\ history' = pushHistory(history, annotatedMarkdown, currentMarkdown, changes)
  /\ afterMutation(spliceChange(annotatedMarkdown, changes[ci + 1],
                                cardText(changes[ci + 1], edit)))
  /\ UNCHANGED <<checkValue, runBtnDisabled, runs, offPage>>

\* rejectChange(ci)
RejectChange(ci) ==
  /\ ci + 1 \in DOMAIN changes
  /\ Len(saves) < MaxSaves
  /\ history' = pushHistory(history, annotatedMarkdown, currentMarkdown, changes)
  /\ afterMutation(spliceChange(annotatedMarkdown, changes[ci + 1],
                                deletedText(changes[ci + 1])))
  /\ UNCHANGED <<checkValue, runBtnDisabled, runs, offPage>>

\* the edits the cards may carry when Accept all is clicked
CardEdits == {e \in [DOMAIN changes -> Edits] :
                \A i \in DOMAIN changes : e[i] # Null => changes[i].inserted # Null}

\* acceptAll(), reached from the menu while it is displayed
AcceptAll(edits) ==
  /\ bulkShown
  /\ annotatedMarkdown # Null /\ annotatedMarkdown # <<>>
  /\ Len(saves) < MaxSaves
  /\ history' = pushHistory(history, annotatedMarkdown, currentMarkdown, changes)
  /\ afterMutation(acceptAllLoop(annotatedMarkdown, changes, edits, Len(changes)))
  /\ UNCHANGED <<checkValue, runBtnDisabled, runs, offPage>>

\* rejectAll(), reached from the menu while it is displayed
RejectAll ==
  /\ bulkShown
  /\ annotatedMarkdown # Null /\ annotatedMarkdown # <<>>
  /\ Len(saves) < MaxSaves
  /\ history' = pushHistory(history, annotatedMarkdown, currentMarkdown, changes)
  /\ afterMutation(rejectAllLoop(annotatedMarkdown, changes, Len(changes)))
  /\ UNCHANGED <<checkValue, runBtnDisabled, runs, offPage>>

\* an undo that restores the annotated text and the changes but not the plain text
undoKeepsPlain(h, a, c, ch) ==
  IF h = <<>>
  THEN [annotatedMarkdown |-> a, currentMarkdown |-> c, changes |-> ch,
        history |-> h, save |-> Null]
  ELSE [annotatedMarkdown |-> h[Len(h)].annotatedMarkdown,
        currentMarkdown |-> c,
        changes |-> h[Len(h)].changes,
        history |-> SubSeq(h, 1, Len(h) - 1),
        save |-> c]

\* an undo that restores the texts of the snapshot but leaves the change list
undoStaleChanges(h, a, c, ch) ==
  IF h = <<>>
  THEN [annotatedMarkdown |-> a, currentMarkdown |-> c, changes |-> ch,
        history |-> h, save |-> Null]
  ELSE [annotatedMarkdown |-> h[Len(h)].annotatedMarkdown,
        currentMarkdown |-> h[Len(h)].currentMarkdown,
        changes |-> ch,
        history |-> SubSeq(h, 1, Len(h) - 1),
        save |-> h[Len(h)].currentMarkdown]

\* undo(): the session it leaves and the text it saves (Null: no save);
\* with an empty history it returns before touching anything
undo(h, a, c, ch) ==
  IF h = <<>>
  THEN [annotatedMarkdown |-> a, currentMarkdown |-> c, changes |-> ch,
        history |-> h, save |-> Null]
  ELSE [annotatedMarkdown |-> h[Len(h)].annotatedMarkdown,
        currentMarkdown |-> h[Len(h)].currentMarkdown,
        changes |-> h[Len(h)].changes,
        history |-> SubSeq(h, 1, Len(h) - 1),
        save |-> h[Len(h)].currentMarkdown]

\* the assignments of undo(), r being what it restores
UndoTo(r) ==
  /\ r.save # Null => Len(saves) < MaxSaves
  /\ annotatedMarkdown' = r.annotatedMarkdown
  /\ currentMarkdown' = r.currentMarkdown
  /\ changes' = r.changes
  /\ history' = r.history
  /\ bulkShown' = IF r.save = Null THEN bulkShown ELSE r.changes # <<>>
  /\ statusClass' = IF r.save = Null THEN statusClass ELSE ""
  /\ saves' = IF r.save = Null THEN saves ELSE Append(saves, r.save)
  /\ UNCHANGED <<checkValue, runBtnDisabled, runs, offPage>>

Undo == UndoTo(undo(history, annotatedMarkdown, currentMarkdown, changes))

\* saveFile(): the request settles and the server has written the file
SaveOk(k) ==
  /\ k \in DOMAIN saves
  /\ sink' = saves[k]
  /\ saves' = SubSeq(saves, 1, k - 1) \o SubSeq(saves, k + 1, Len(saves))
  /\ UNCHANGED <<sessionVars, checkValue, runBtnDisabled, bulkShown, statusClass, runs,
                 stream, codec, engine>>

\* a saveFile that takes the resolution back when its request fails
SaveFailRollback(k) ==
  /\ k \in DOMAIN saves
  /\ saves' = SubSeq(saves, 1, k - 1) \o SubSeq(saves, k + 1, Len(saves))
  /\ annotatedMarkdown' = undo(history, annotatedMarkdown, currentMarkdown, changes).annotatedMarkdown
  /\ currentMarkdown' = undo(history, annotatedMarkdown, currentMarkdown, changes).currentMarkdown
  /\ changes' = undo(history, annotatedMarkdown, currentMarkdown, changes).changes
  /\ history' = undo(history, annotatedMarkdown, currentMarkdown, changes).history
  /\ statusClass' = "error"
  /\ UNCHANGED <<checkValue, runBtnDisabled, bulkShown, runs, offPage>>

\* saveFile(): the request fails; only the status line reports it
SaveFail(k) ==
  /\ k \in DOMAIN saves
  /\ saves' = SubSeq(saves, 1, k - 1) \o SubSeq(saves, k + 1, Len(saves))
  /\ statusClass' = "error"
  /\ UNCHANGED <<sessionVars, checkValue, runBtnDisabled, bulkShown, runs, offPage>>

\* the change listener of the check drop-down
SelectCheck(v) ==
  /\ v # checkValue
  /\ checkValue' = v
  /\ runBtnDisabled' = (v = "")
  /\ UNCHANGED <<sessionVars, bulkShown, statusClass, runs, saves, offPage>>

\* one runCheck invocation: where it waits, the markdown it posted, and the
\* terminal event the server has sent ("" while it has sent none)
Run(pc, markdown, terminal) == [pc |-> pc, markdown |-> markdown, terminal |-> terminal]

\* the event type ends the stream: the server closes the response after it
terminalOf(eventType) == IF eventType \in {"done", "error"} THEN eventType ELSE ""

\* the run r of the bag moves on to r2
Step(r, r2) == (runs (-) SetToBag({r})) (+) SetToBag({r2})

ActiveRuns == BagToSet(runs)

\* a click on the run button: runCheck() up to its first await.  A disabled
\* button delivers no click.
RunClick ==
  /\ ~runBtnDisabled
  /\ checkValue # ""
  /\ BagCardinality(runs) < MaxRuns
  /\ runBtnDisabled' = TRUE
  /\ runs' = runs (+) SetToBag({Run("fetch", currentMarkdown, "")})
  /\ statusClass' = ""
  /\ UNCHANGED <<sessionVars, checkValue, bulkShown, saves, offPage>>

\* the finally block of runCheck()
runFinally(r) ==
  /\ runBtnDisabled' = FALSE
  /\ runs' = runs (-) SetToBag({r})

\* the response is not OK: report and return
RespNotOk(r) ==
  /\ r.pc = "fetch"
  /\ runFinally(r)
  /\ statusClass' = "error"
  /\ UNCHANGED <<sessionVars, checkValue, bulkShown, saves, offPage>>

\* the response is OK: start reading the event stream
RespOk(r) ==
  /\ r.pc = "fetch"
  /\ runs' = Step(r, Run("read", r.markdown, ""))
  /\ UNCHANGED <<sessionVars, checkValue, runBtnDisabled, bulkShown, statusClass, saves, offPage>>

\* fetch() or reader.read() throws: catch, then finally
RunThrow(r) ==
  /\ runFinally(r)
  /\ statusClass' = "error"
  /\ UNCHANGED <<sessionVars, checkValue, bulkShown, saves, offPage>>

\* a handler that clears the review when the run reports an error
handleStreamEventClearing(eventType, doc, a, ch, shown) ==
  IF eventType = "done"
  THEN [annotatedMarkdown |-> doc, changes |-> parseChanges(doc), bulkShown |-> TRUE]
  ELSE IF eventType = "error"
  THEN [annotatedMarkdown |-> Null, changes |-> <<>>, bulkShown |-> FALSE]
  ELSE [annotatedMarkdown |-> a, changes |-> ch, bulkShown |-> shown]

\* a handler that adds the changes of a finished run to those still pending
handleStreamEventMerging(eventType, doc, a, ch, shown) ==
  IF eventType = "done"
  THEN [annotatedMarkdown |-> doc, changes |-> ch \o parseChanges(doc), bulkShown |-> TRUE]
  ELSE [annotatedMarkdown |-> a, changes |-> ch, bulkShown |-> shown]

\* what handleStreamEvent leaves of the annotated text and the change list
handleStreamEvent(eventType, doc, a, ch, shown) ==
  IF eventType = "done"
  THEN [annotatedMarkdown |-> doc, changes |-> parseChanges(doc), bulkShown |-> TRUE]
  ELSE [annotatedMarkdown |-> a, changes |-> ch, bulkShown |-> shown]

\* the class handleStreamEvent leaves on the status line
statusAfter(eventType, class) ==
  IF eventType = "done" THEN "" ELSE IF eventType = "error" THEN "error" ELSE class

\* one event of the stream is read and handled
HandleTo(r, eventType, h) ==
  /\ r.pc = "read" /\ r.terminal = ""
  /\ annotatedMarkdown' = h.annotatedMarkdown
  /\ changes' = h.changes
  /\ bulkShown' = h.bulkShown
  /\ statusClass' = statusAfter(eventType, statusClass)
  /\ runs' = Step(r, Run("read", r.markdown, terminalOf(eventType)))
  /\ UNCHANGED <<currentMarkdown, history, checkValue, runBtnDisabled, saves, offPage>>

Handle(r, eventType, doc) ==
  HandleTo(r, eventType, handleStreamEvent(eventType, doc, annotatedMarkdown, changes, bulkShown))

HandleStatus(r) == Handle(r, "status", Null)

HandleProgress(r) == Handle(r, "progress", Null)

HandleDone(r, doc) == Handle(r, "done", doc)

HandleError(r) == Handle(r, "error", Null)

\* reader.read() reports the end of the stream: leave the loop, then finally
StreamEnd(r) ==
  /\ r.pc = "read"
  /\ runFinally(r)
  /\ UNCHANGED <<sessionVars, checkValue, bulkShown, statusClass, saves, offPage>>

\* ------------------------------------------------------------------------
\* streamAnnotation (src/parse.ts): one call of the generator
\* ------------------------------------------------------------------------

MaxDeltas == 3   \* text deltas the generation service sends in one answer

\* the events the generator yields
Signal(type, message, current, total, blockStatus, annotated) ==
  [type |-> type, message |-> message, current |-> current, total |-> total,
   blockStatus |-> blockStatus, annotated |-> annotated]

StatusSignal(message, total) == Signal("status", message, 0, total, "", Null)

ProgressSignal(current, total, blockStatus) ==
  Signal("progress", "", current, total, blockStatus, Null)

DoneSignal(annotated) == Signal("done", "", 0, 0, "", annotated)

ErrorSignal == Signal("error", "", 0, 0, "", Null)

\* the call before its first statement; answer and deltas record what the
\* service has sent so far
NewStream(markdown) ==
  [pc |-> "start", markdown |-> markdown, frontmatter |-> <<>>, blocks |-> <<>>,
   textBuffer |-> <<>>, thinkingStarted |-> FALSE, textStarted |-> FALSE,
   completedBlocks |-> 0, parsedOutput |-> EmptyMap, currentNum |-> NoNum,
   currentContent |-> <<>>, emitted |-> <<>>, answer |-> <<>>, deltas |-> 0]

\* no call is being followed
IdleStream == [NewStream(<<>>) EXCEPT !.pc = "idle"]

\* splitIntoBlocks, then the first status
beginWith(st, split) ==
  [st EXCEPT !.pc = "stream", !.frontmatter = split.frontmatter,
             !.blocks = split.blocks,
             !.emitted = Append(@, StatusSignal("Analyzing", Len(split.blocks)))]

begin(st) == beginWith(st, splitIntoBlocks(st.markdown))

\* a generator that reports every content block it is told about
contentBlockStartEvery(st, blockType) ==
  IF blockType = "thinking"
  THEN [st EXCEPT !.thinkingStarted = TRUE,
                  !.emitted = Append(@, StatusSignal("Thinking", 0))]
  ELSE [st EXCEPT !.textStarted = TRUE,
                  !.emitted = Append(@, StatusSignal("Reviewing", Len(st.blocks)))]

\* content_block_start
contentBlockStart(st, blockType) ==
  IF blockType = "thinking" /\ ~st.thinkingStarted
  THEN [st EXCEPT !.thinkingStarted = TRUE,
                  !.emitted = Append(@, StatusSignal("Thinking", 0))]
  ELSE IF blockType = "text" /\ ~st.textStarted
  THEN [st EXCEPT !.textStarted = TRUE,
                  !.emitted = Append(@, StatusSignal("Reviewing", Len(st.blocks)))]
  ELSE st

\* a finalizer that reports the count of the blocks completed before this one
finalizeBlockStale(st) ==
  IF st.currentNum = NoNum THEN st
  ELSE [st EXCEPT !.parsedOutput = MapSet(@, st.currentNum, Trim(st.currentContent)),
                  !.completedBlocks = @ + 1,
                  !.emitted = Append(@, ProgressSignal(st.completedBlocks,
                                       Len(st.blocks),
                                       IF Trim(st.currentContent) = Lgtm
                                       THEN "lgtm" ELSE "changes"))]

\* "finalize previous block": the judgment being read goes into the map
finalizeBlock(st) ==
  IF st.currentNum = NoNum THEN st
  ELSE [st EXCEPT !.parsedOutput = MapSet(@, st.currentNum, Trim(st.currentContent)),
                  !.completedBlocks = @ + 1,
                  !.emitted = Append(@, ProgressSignal(st.completedBlocks + 1,
                                       Len(st.blocks),
                                       IF Trim(st.currentContent) = Lgtm
                                       THEN "lgtm" ELSE "changes"))]

startBlock(st, m) == [st EXCEPT !.currentNum = m.num, !.currentContent = m.content]

\* a line (or the last, unterminated one) whose match is m
lineMatched(st, line, m) ==
  IF m.ok THEN startBlock(finalizeBlock(st), m)
  ELSE IF st.currentNum # NoNum
  THEN [st EXCEPT !.currentContent = @ \o Newline \o line]
  ELSE st

\* the body of the while loop for one complete line
completeLine(st, line) ==
  IF Trim(line) = <<>> THEN st ELSE lineMatched(st, line, NumberedLine(line, FALSE))

\* the while loop: every complete line leaves the buffer
RECURSIVE drainLines(_)
drainLineAt(st, k) ==
  IF k = -1 THEN st
  ELSE drainLines(completeLine([st EXCEPT !.textBuffer = SliceFrom(@, k + 1)],
                               Slice(st.textBuffer, 0, k)))

drainLines(st) == drainLineAt(st, IndexOfFrom(st.textBuffer, Newline, 0))

\* content_block_delta carrying a text_delta
textDelta(st, text) ==
  drainLines([st EXCEPT !.textBuffer = @ \o text, !.answer = @ \o text,
                        !.deltas = @ + 1])

\* "finalize any remaining text in the buffer", matched with the s flag
flushBuffer(st) ==
  IF Trim(st.textBuffer) = <<>> THEN st
  ELSE lineMatched(st, st.textBuffer, NumberedLine(st.textBuffer, TRUE))

\* the last status, reconstruct, validate (which only logs) and done
finish(st) ==
  [st EXCEPT !.pc = "closed",
             !.emitted = @ \o <<StatusSignal("Reconstructing", 0),
                                DoneSignal(reconstruct(st.parsedOutput, st.frontmatter,
                                                       st.blocks).annotated)>>]

\* the stream of the SDK ends: everything after the for-await loop
streamEnd(st) == finish(finalizeBlock(flushBuffer(st)))

\* the catch clause
caught(st) == [st EXCEPT !.pc = "closed", !.emitted = Append(@, ErrorSignal)]

\* the markdown posted to /api/annotate
StreamDocs == {<<"a", "\n", "\n", "b">>,
               <<"-", "-", "-", "\n", "t", "\n", "-", "-", "-", "\n", "a", "b">>}

InsXHi == InsSpan(<<"x">>, <<"h", "i">>)

\* the text deltas the generation service may send
Fragments ==
  {<<"1", " ", "l", "g">>, <<"t", "m", "\n", "2", " ">>, InsXHi \o Newline,
   <<"\r">>, <<"a">>, Newline, <<"\n", "\n", "a">>}

BlockTypes == {"thinking", "text"}

\* the generator runs up to its first yield
Begin ==
  /\ stream.pc = "start"
  /\ stream' = begin(stream)
  /\ UNCHANGED <<pageVars, sink, codec, engine>>

\* the SDK announces a content block
ContentBlockStart(blockType) ==
  /\ stream.pc = "stream"
  /\ stream' = contentBlockStart(stream, blockType)
  /\ UNCHANGED <<pageVars, sink, codec, engine>>

\* the SDK delivers a fragment of the answer
TextDelta(text) ==
  /\ stream.pc = "stream"
  /\ stream.deltas < MaxDeltas
  /\ stream' = textDelta(stream, text)
  /\ UNCHANGED <<pageVars, sink, codec, engine>>

\* the SDK ends the stream
StreamFinished ==
  /\ stream.pc = "stream"
  /\ stream' = streamEnd(stream)
  /\ UNCHANGED <<pageVars, sink, codec, engine>>

\* the client constructor, the request or the stream throws
StreamThrows ==
  /\ stream.pc \in {"start", "stream"}
  /\ stream' = caught(stream)
  /\ UNCHANGED <<pageVars, sink, codec, engine>>

\* ------------------------------------------------------------------------
\* Writing annotations into an original text, and recovering it
\* ------------------------------------------------------------------------

MaxSpans == 2   \* spans an annotator writes into one text

\* the annotator has read `pos` characters of the original and written
\* `annotated`; `recovered` is Null until recoverOriginal has run, `errors`
\* is what validate has returned once `validated` is set
Codec(original, pos, annotated, spans, recovered) ==
  [original |-> original, pos |-> pos, annotated |-> annotated, spans |-> spans,
   recovered |-> recovered, validated |-> FALSE, errors |-> <<>>]

IdleCodec == Codec(<<>>, 0, <<>>, 0, Null)

\* the original texts: plain words, and a text that shows a closing tag
Originals == {<<"a", "b">>, CloseLit(DelTag) \o <<"b">>}

\* rationales and replacement texts, one of them in need of escaping
AttrTexts == {<<"c">>, <<"\"", "&">>}

\* texts of insertions
InsTexts == {<<"y">>}

\* the next character of the original is left as it is
CopyChar ==
  /\ codec.recovered = Null /\ ~codec.validated
  /\ codec.pos < Len(codec.original)
  /\ codec' = [codec EXCEPT !.pos = @ + 1,
                            !.annotated = Append(@, codec.original[codec.pos + 1])]
  /\ UNCHANGED <<pageVars, sink, stream, engine>>

\* the next n characters are wrapped in a deletion span
WrapDeletion(n, comment) ==
  /\ codec.recovered = Null /\ ~codec.validated
  /\ codec.spans < MaxSpans
  /\ codec.pos + n <= Len(codec.original)
  /\ codec' = [codec EXCEPT
       !.pos = @ + n, !.spans = @ + 1,
       !.annotated = @ \o DelSpan(escapeAttr(comment),
                                  Slice(codec.original, codec.pos, codec.pos + n))]
  /\ UNCHANGED <<pageVars, sink, stream, engine>>

\* the next n characters are wrapped in a replacement span
WrapReplacement(n, comment, replaceWith) ==
  /\ codec.recovered = Null /\ ~codec.validated
  /\ codec.spans < MaxSpans
  /\ codec.pos + n <= Len(codec.original)
  /\ codec' = [codec EXCEPT
       !.pos = @ + n, !.spans = @ + 1,
       !.annotated = @ \o ReplSpan(escapeAttr(comment), escapeAttr(replaceWith),
                                   Slice(codec.original, codec.pos, codec.pos + n))]
  /\ UNCHANGED <<pageVars, sink, stream, engine>>

\* an insertion span is written at the current position
InsertSpan(comment, text) ==
  /\ codec.recovered = Null /\ ~codec.validated
  /\ codec.spans < MaxSpans
  /\ codec' = [codec EXCEPT !.spans = @ + 1,
                            !.annotated = @ \o InsSpan(escapeAttr(comment), text)]
  /\ UNCHANGED <<pageVars, sink, stream, engine>>

\* tag markup that belongs to no span: an opening tag that is never closed, the
\* closing tags, an opening tag without its attribute
Markers ==
  {OpenLit(DelTag) \o <<" ">> \o CommentAttr \o <<"c", "\"", ">">>,
   CloseLit(DelTag), CloseLit(InsTag), OpenLit(InsTag) \o Gt}

\* the annotator writes tag markup that is not a span
WriteMarker(m) ==
  /\ codec.recovered = Null /\ ~codec.validated
  /\ codec.spans < MaxSpans
  /\ codec' = [codec EXCEPT !.spans = @ + 1, !.annotated = @ \o m]
  /\ UNCHANGED <<pageVars, sink, stream, engine>>

\* validate(annotated) on what is written so far
Validate ==
  /\ codec.recovered = Null /\ ~codec.validated
  /\ codec' = [codec EXCEPT !.validated = TRUE, !.errors = validate(codec.annotated)]
  /\ UNCHANGED <<pageVars, sink, stream, engine>>

\* the whole original is annotated: recoverOriginal(annotated)
Recover ==
  /\ codec.recovered = Null
  /\ codec.pos = Len(codec.original)
  /\ codec' = [codec EXCEPT !.recovered = recoverOriginal(codec.annotated)]
  /\ UNCHANGED <<pageVars, sink, stream, engine>>

\* ------------------------------------------------------------------------
\* A document through splitIntoBlocks and reconstruct (src/reconstruct.ts)
\* ------------------------------------------------------------------------

MaxLines == 5   \* lines of the body of a document

\* the document is being written (pc "write"), has been split ("split"), has
\* been reconstructed ("done"); lines are the lines of its body, mode is the
\* form of the judgments the run is configured for ("full" or "compact"),
\* splices the calls of spliceAnnotation that reconstruct has made
NewEngine(header, lines, mode) ==
  [pc |-> "write", header |-> header, lines |-> lines, frontmatter |-> <<>>,
   blocks |-> <<>>, parsedOutput |-> EmptyMap, mode |-> mode, resultBlocks |-> <<>>,
   annotated |-> <<>>, warnings |-> <<>>, splices |-> <<>>]

IdleEngine == [NewEngine(<<>>, <<>>, "full") EXCEPT !.pc = "idle"]

\* the text of the document: the header, then the lines of the body
engineMarkdown(e) == e.header \o Join(e.lines, Newline)

segmentWith(e, split) ==
  [e EXCEPT !.pc = "split", !.frontmatter = split.frontmatter, !.blocks = split.blocks]

\* const { frontmatter, blocks } = splitIntoBlocks(markdown)
segment(e) == segmentWith(e, splitIntoBlocks(engineMarkdown(e)))

\* resultBlocks and warnings are the locals of reconstruct when it returns
reconstructedWith(e, acc, splices) ==
  [e EXCEPT !.pc = "done", !.resultBlocks = acc.resultBlocks,
            !.annotated = reconstructResult(e.frontmatter, acc).annotated,
            !.warnings = reconstructResult(e.frontmatter, acc).warnings,
            !.splices = splices]

\* const { annotated, warnings } = reconstruct(parsedOutput, frontmatter, blocks)
reconstructed(e) ==
  reconstructedWith(e,
    reconstructLoop([resultBlocks |-> <<>>, warnings |-> <<>>],
                    e.parsedOutput, e.blocks, 1),
    <<>>)

compactDone(e, acc) == reconstructedWith(e, acc, acc.splices)

\* the same call when the judgments are compact
reconstructedCompact(e) ==
  compactDone(e, compactLoop([resultBlocks |-> <<>>, warnings |-> <<>>, splices |-> <<>>],
                             e.parsedOutput, e.blocks, 1))

\* one more line is written at the end of the body
WriteLine(line) ==
  /\ engine.pc = "write"
  /\ Len(engine.lines) < MaxLines
  /\ engine' = [engine EXCEPT !.lines = Append(@, line)]
  /\ UNCHANGED <<pageVars, sink, stream, codec>>

\* the document is split
Segment ==
  /\ engine.pc = "write"
  /\ engine' = segment(engine)
  /\ UNCHANGED <<pageVars, sink, stream, codec>>

\* the answer holds the judgment j for block number k
Judge(k, j) ==
  /\ engine.pc = "split"
  /\ k \notin DOMAIN engine.parsedOutput
  /\ engine' = [engine EXCEPT !.parsedOutput = MapSet(@, k, j)]
  /\ UNCHANGED <<pageVars, sink, stream, codec>>

\* the answer approves every block
ApproveAll ==
  /\ engine.pc = "split"
  /\ engine.parsedOutput = EmptyMap
  /\ engine.blocks # <<>>
  /\ engine' = [engine EXCEPT !.parsedOutput = [k \in 1..Len(engine.blocks) |-> Lgtm]]
  /\ UNCHANGED <<pageVars, sink, stream, codec>>

\* the document is reconstructed from full-block judgments
Reconstruct ==
  /\ engine.pc = "split"
  /\ engine.mode = "full"
  /\ engine' = reconstructed(engine)
  /\ UNCHANGED <<pageVars, sink, stream, codec>>

\* the document is reconstructed from compact judgments
ReconstructCompact ==
  /\ engine.pc = "split"
  /\ engine.mode = "compact"
  /\ engine' = reconstructedCompact(engine)
  /\ UNCHANGED <<pageVars, sink, stream, codec>>

\* the page after init(), opened on the file of the first scenario
Init ==
  /\ currentMarkdown = TheCatSat
  /\ annotatedMarkdown = Null
  /\ changes = <<>>
  /\ history = <<>>
  /\ checkValue = ""
  /\ runBtnDisabled = TRUE
  /\ bulkShown = FALSE
  /\ statusClass = ""
  /\ runs = EmptyBag
  /\ saves = <<>>
  /\ sink = currentMarkdown
  /\ stream = IdleStream
  /\ codec = IdleCodec
  /\ engine = IdleEngine

AcceptOne == \E ci \in 0..(Len(changes) - 1), e \in Edits : AcceptChange(ci, e)
RejectOne == \E ci \in 0..(Len(changes) - 1) : RejectChange(ci)
AcceptEvery == \E ed \in CardEdits : AcceptAll(ed)

Resolve == AcceptOne \/ RejectOne \/ AcceptEvery \/ RejectAll

Next ==
  \/ \E v \in CheckNames : SelectCheck(v)
  \/ RunClick
  \/ \E r \in ActiveRuns : RespNotOk(r)
  \/ \E r \in ActiveRuns : RespOk(r)
  \/ \E r \in ActiveRuns : RunThrow(r)
  \/ \E r \in ActiveRuns : HandleStatus(r)
  \/ \E r \in ActiveRuns : HandleProgress(r)
  \/ \E r \in ActiveRuns : \E doc \in DoneDocs(r.markdown) : HandleDone(r, doc)
  \/ \E r \in ActiveRuns : HandleError(r)
  \/ \E r \in ActiveRuns : StreamEnd(r)
  \/ (Len(history) < MaxHist /\ AcceptOne)
  \/ (Len(history) < MaxHist /\ RejectOne)
  \/ (Len(history) < MaxHist /\ AcceptEvery)
  \/ (Len(history) < MaxHist /\ RejectAll)
  \/ Undo
  \/ \E k \in DOMAIN saves : SaveOk(k)
  \/ \E k \in DOMAIN saves : SaveFail(k)

vars == <<currentMarkdown, annotatedMarkdown, changes, history, checkValue,
          runBtnDisabled, bulkShown, statusClass, runs, saves, sink, stream, codec,
          engine>>

Spec == Init /\ [][Next]_vars

\* the page right after a first run has ended with `done`, nothing resolved yet
InitReview ==
  /\ currentMarkdown \in Files
  /\ annotatedMarkdown \in DoneDocs(currentMarkdown)
  /\ changes = parseChanges(annotatedMarkdown)
  /\ history = <<>>
  /\ checkValue = "check"
  /\ runBtnDisabled = FALSE
  /\ bulkShown = TRUE
  /\ statusClass = ""
  /\ runs = EmptyBag
  /\ saves = <<>>
  /\ sink = currentMarkdown
  /\ stream = IdleStream
  /\ codec = IdleCodec
  /\ engine = IdleEngine

NextReview ==
  \/ AcceptOne
  \/ RejectOne
  \/ AcceptEvery
  \/ RejectAll
  \/ Undo
  \/ \E k \in DOMAIN saves : SaveOk(k)
  \/ \E k \in DOMAIN saves : SaveFail(k)

SpecReview == InitReview /\ [][NextReview]_vars

\* the page after init() and the choice of a check; nothing has run yet
InitHistory ==
  /\ currentMarkdown = TheCatSat
  /\ annotatedMarkdown = Null
  /\ changes = <<>>
  /\ history = <<>>
  /\ checkValue = "check"
  /\ runBtnDisabled = FALSE
  /\ bulkShown = FALSE
  /\ statusClass = ""
  /\ runs = EmptyBag
  /\ saves = <<>>
  /\ sink = currentMarkdown
  /\ stream = IdleStream
  /\ codec = IdleCodec
  /\ engine = IdleEngine

\* a long review: runs that end with `done`, each proposal decided or the
\* decision undone, so that the undo stack fills up.  The reviewer rejects at
\* any time but accepts and undoes between runs only, which keeps the stacks
\* this review can build few enough to enumerate.
NextHistory ==
  \/ RunClick
  \/ \E r \in ActiveRuns : RespOk(r)
  \/ \E r \in ActiveRuns : \E doc \in DoneDocs(r.markdown) : HandleDone(r, doc)
  \/ \E r \in ActiveRuns : StreamEnd(r)
  \/ (runs = EmptyBag /\ \E ci \in 0..(Len(changes) - 1) : AcceptChange(ci, Null))
  \/ RejectOne
  \/ RejectAll
  \/ (runs = EmptyBag /\ Undo)
  \/ \E k \in DOMAIN saves : SaveOk(k)

SpecHistory == InitHistory /\ [][NextHistory]_vars

\* ------------------------------------------------------------------------
\* Properties of the review session
\* ------------------------------------------------------------------------

\* the session as a snapshot record
Snapshot ==
  [annotatedMarkdown |-> annotatedMarkdown, currentMarkdown |-> currentMarkdown,
   changes |-> changes]

\* a step that is one of the four mutations
Mutated == AcceptOne \/ RejectOne \/ AcceptEvery \/ RejectAll

\* text a with the span of `change` replaced by `text`
C3_Replaced(a, change, text) ==
  SubSeq(a, 1, change.startOffset) \o text \o SubSeq(a, change.endOffset + 1, Len(a))

C3_Insertion(change, edit) ==
  IF edit # Null THEN edit ELSE IF change.inserted = Null THEN <<>> ELSE change.inserted

C3_Deletion(change) == IF change.deleted = Null THEN <<>> ELSE change.deleted

C3_AfterAccept(change, edit) ==
  /\ annotatedMarkdown' = C3_Replaced(annotatedMarkdown, change, C3_Insertion(change, edit))
  /\ changes' = parseChanges(annotatedMarkdown')

C3_AfterReject(change) ==
  /\ annotatedMarkdown' = C3_Replaced(annotatedMarkdown, change, C3_Deletion(change))
  /\ changes' = parseChanges(annotatedMarkdown')

\* C3: accept(i) replaces exactly the span of change i by its insertion text
\* (the text typed into the card when there is one, nothing when the change
\* inserts nothing), reject(i) replaces it by its deletion text (nothing when
\* there is none); the text around the span stays and the change list is
\* parsed again from the new text.  On the first scenario reject gives
\* 'The cat sat.' and accept gives 'The cat sits.'.
C3_SpliceExact ==
  [][/\ \A ci \in 0..(Len(changes) - 1) : \A e \in Edits :
          AcceptChange(ci, e) => C3_AfterAccept(changes[ci + 1], e)
     /\ \A ci \in 0..(Len(changes) - 1) :
          RejectChange(ci) => C3_AfterReject(changes[ci + 1])
     /\ (annotatedMarkdown = Scenario1 /\ AcceptChange(0, Null))
          => (annotatedMarkdown' = TheCatSits /\ currentMarkdown' = TheCatSits)
     /\ (annotatedMarkdown = Scenario1 /\ RejectChange(0))
          => (annotatedMarkdown' = TheCatSat /\ currentMarkdown' = TheCatSat)]_vars

\* the first scenario's replacement has just been accepted
C3_Witness ==
  /\ history # <<>>
  /\ history[Len(history)].annotatedMarkdown = Scenario1
  /\ annotatedMarkdown = TheCatSits
  /\ changes = <<>>

\* the annotated text after acceptChange(ci) / rejectChange(ci) on text a whose
\* change list is chs, no card edited
C4_DecideWith(a, chs, ci, decision) ==
  IF ci + 1 \notin DOMAIN chs THEN a
  ELSE spliceChange(a, chs[ci + 1],
                    IF decision = "accept" THEN cardText(chs[ci + 1], Null)
                    ELSE deletedText(chs[ci + 1]))

C4_Decide(a, ci, decision) == C4_DecideWith(a, parseChanges(a), ci, decision)

\* change 0 first: what was change 1 is then the first change of the list
C4_FirstThenSecond(a, d0, d1) == C4_Decide(C4_Decide(a, 0, d0), 0, d1)

\* change 1 first: change 0 keeps its index
C4_SecondThenFirst(a, d0, d1) == C4_Decide(C4_Decide(a, 1, d1), 0, d0)

\* C4: with two pending changes, deciding them in either order gives the same
\* annotated text (hence the same plain text), and it is the text
\* applyDecisions computes from the two decisions at once.
C4_DecisionsCommute ==
  Len(changes) = 2 =>
    \A d0, d1 \in {"accept", "reject"} :
      /\ C4_FirstThenSecond(annotatedMarkdown, d0, d1)
           = C4_SecondThenFirst(annotatedMarkdown, d0, d1)
      /\ C4_FirstThenSecond(annotatedMarkdown, d0, d1)
           = applyDecisions(annotatedMarkdown, <<d0, d1>>)

C5_Restored(r, snapshot) ==
  /\ r.annotatedMarkdown = snapshot.annotatedMarkdown
  /\ r.currentMarkdown = snapshot.currentMarkdown
  /\ r.changes = snapshot.changes

C5_NoOp(r) == C5_Restored(r, Snapshot) /\ r.history = <<>> /\ r.save = Null

\* C5: an undo right after accept, reject, acceptAll or rejectAll restores the
\* annotated text, the plain text and the change list the mutation started
\* from; with an empty history undo changes nothing and saves nothing.
C5_UndoInverse ==
  /\ [](history = <<>> =>
          C5_NoOp(undo(history, annotatedMarkdown, currentMarkdown, changes)))
  /\ [][Mutated =>
          C5_Restored(undo(history', annotatedMarkdown', currentMarkdown', changes'),
                      Snapshot)]_vars

\* a mutation of the first scenario was undone: the history is empty again, the
\* proposal is back, and the save undo issued is still in flight
C5_Witness ==
  /\ history = <<>>
  /\ annotatedMarkdown = Scenario1
  /\ Len(changes) = 1
  /\ saves = <<TheCatSat>>

C6_KeepLast(h, n) == IF Len(h) > n THEN SubSeq(h, Len(h) - n + 1, Len(h)) ELSE h

\* C6: the history never holds more than 50 snapshots; a mutation appends the
\* snapshot of the state it starts from and, past 50, drops the oldest; an
\* effective undo removes the newest snapshot and restores it.
C6_HistoryBounded ==
  /\ [](Len(history) <= 50)
  /\ [][(Len(saves') > Len(saves) /\ Len(history') >= Len(history))
          => history' = C6_KeepLast(Append(history, Snapshot), 50)]_vars
  /\ [][Len(history') < Len(history)
          => /\ history' = SubSeq(history, 1, Len(history) - 1)
             /\ Snapshot' = history[Len(history)]]_vars

\* the history is full and its oldest snapshot is no longer the first one pushed
C6_Witness ==
  /\ Len(history) = 50
  /\ history[1].annotatedMarkdown # Scenario1

\* C7: at most one run is in flight at any time.
C7_AtMostOneRun == BagCardinality(runs) <= 1

\* some run has just received its error event
C9_ErrorStep ==
  \E r \in ActiveRuns :
    /\ r.terminal = ""
    /\ runs' = Step(r, Run(r.pc, r.markdown, "error"))

\* some run has just received its done event
C9_DoneStep ==
  \E r \in ActiveRuns :
    /\ r.terminal = ""
    /\ runs' = Step(r, Run(r.pc, r.markdown, "done"))

\* some run has just left runCheck, or has just been started
C9_RunCountStep == BagCardinality(runs') # BagCardinality(runs)

\* C9: a step in which a run receives its error event, starts, or ends (not-OK
\* response, exception, end of stream) leaves the annotated text, the plain
\* text, the change list and the history alone; these change only when a done
\* event is handled or the reviewer mutates or undoes (which always saves), so
\* never on a status or progress event.
C9_FailedRunCommitsNothing ==
  [][/\ (C9_ErrorStep \/ C9_RunCountStep) => UNCHANGED sessionVars
     /\ sessionVars' # sessionVars => (C9_DoneStep \/ Len(saves') > Len(saves))]_vars

\* a run has failed with an error event while the first scenario was under
\* review, and the proposal is still there
C9_Witness ==
  /\ \E r \in ActiveRuns : r.terminal = "error"
  /\ annotatedMarkdown = Scenario1
  /\ Len(changes) = 1

\* an undo that finds a snapshot to restore
EffectiveUndo == history # <<>> /\ Undo

\* C21: every accept, reject, acceptAll, rejectAll and every undo that finds a
\* snapshot issues exactly one save request, and its body is the plain text as
\* that operation leaves it.
C21_WriteThrough ==
  [][(Mutated \/ EffectiveUndo) => saves' = Append(saves, currentMarkdown')]_vars

\* a proposal was accepted: the plain text is no longer that of the file and
\* the request carrying it is in flight
C21_Witness ==
  /\ Len(history) = 1
  /\ currentMarkdown \notin Files
  /\ currentMarkdown = resolveCurrentMarkdown(annotatedMarkdown)
  /\ saves = <<currentMarkdown>>

\* a save request has just failed: it left the requests in flight and the
\* status line reports an error
C22_FailStep == Len(saves') < Len(saves) /\ statusClass' = "error"

\* the requests q without the k-th
C22_Without(q, k) == SubSeq(q, 1, k - 1) \o SubSeq(q, k + 1, Len(q))

\* C22: when a save request fails, the annotated text, the plain text, the
\* change list and the history stay as they are, the status line reports the
\* failure, and no new request is issued: the requests in flight are the old
\* ones without the failed one.
C22_NoRollback ==
  [][C22_FailStep =>
       /\ UNCHANGED sessionVars
       /\ \E k \in DOMAIN saves : saves' = C22_Without(saves, k)]_vars

\* the save of an accepted proposal has failed: the status line shows the
\* error, nothing is in flight, and the session is the one the accept left
C22_Witness ==
  /\ statusClass = "error"
  /\ saves = <<>>
  /\ Len(history) = 1
  /\ currentMarkdown \notin Files
  /\ currentMarkdown = resolveCurrentMarkdown(annotatedMarkdown)
  /\ changes = parseChanges(annotatedMarkdown)

\* what a change proposes: its rationale, the text it deletes, the text it inserts
C23_Content(chs) ==
  [i \in DOMAIN chs |->
     [comment |-> chs[i].comment, deleted |-> chs[i].deleted, inserted |-> chs[i].inserted]]

\* the list q without its k-th element
C23_Others(q, k) == SubSeq(q, 1, k - 1) \o SubSeq(q, k + 1, Len(q))

\* the change list after acceptChange(ci) or rejectChange(ci) proposes what the
\* other changes proposed, in their order
C23_OthersRemain(ci) == C23_Content(changes') = C23_Others(C23_Content(changes), ci + 1)

\* C23: acceptChange(ci) and rejectChange(ci) on a pending change leave the other
\* changes pending, each with the rationale, the deleted text and the inserted
\* text it had, in the same order, and no others; the change list is empty
\* exactly when the resolved change was the only one.
C23_RemovesExactlyOne ==
  [][\A ci \in 0..(Len(changes) - 1) :
       /\ (\E e \in Edits : AcceptChange(ci, e)) =>
            C23_OthersRemain(ci) /\ (changes' = <<>> <=> Len(changes) = 1)
       /\ RejectChange(ci) =>
            C23_OthersRemain(ci) /\ (changes' = <<>> <=> Len(changes) = 1)]_vars

\* the texts that deciding the pending changes of a one at a time, all the
\* same way and in any order, may end with
RECURSIVE C24_OneAtATime(_, _)
C24_OneAtATime(a, decision) ==
  IF parseChanges(a) = <<>> THEN {a}
  ELSE UNION {C24_OneAtATime(C4_Decide(a, ci, decision), decision) :
                ci \in 0..(Len(parseChanges(a)) - 1)}

\* the session has no change left and its text is what one-at-a-time decisions give
C24_Resolved(decision) ==
  /\ changes' = <<>>
  /\ annotatedMarkdown' = currentMarkdown'
  /\ C24_OneAtATime(annotatedMarkdown, decision) = {annotatedMarkdown'}

\* C24: acceptAll (no card edited) and rejectAll leave an empty change list and
\* an annotated text equal to the plain text, and that text is the one that
\* accepting (rejecting) the pending changes one at a time gives in every order.
C24_BulkResolves ==
  [][/\ AcceptAll([i \in DOMAIN changes |-> Null]) => C24_Resolved("accept")
     /\ RejectAll => C24_Resolved("reject")]_vars

\* a review during which the check is run again: runs that end with `done`,
\* proposals rejected in between, at most MaxHist of them
NextRerun ==
  \/ RunClick
  \/ \E r \in ActiveRuns : RespOk(r)
  \/ \E r \in ActiveRuns : \E doc \in DoneDocs(r.markdown) : HandleDone(r, doc)
  \/ \E r \in ActiveRuns : StreamEnd(r)
  \/ (Len(history) < MaxHist /\ RejectOne)
  \/ \E k \in DOMAIN saves : SaveOk(k)

SpecRerun == InitReview /\ [][NextRerun]_vars

\* the run r has just received its done event
C25_DoneStep(r) == r.terminal = "" /\ runs' = Step(r, Run(r.pc, r.markdown, "done"))

\* C25: when a run receives done, whatever was pending, the annotated text
\* becomes a result of that run and the change list becomes exactly the
\* changes parsed from it; the plain text and the history are left alone.
C25_RunOverwrites ==
  [][\A r \in ActiveRuns :
       C25_DoneStep(r) =>
         /\ annotatedMarkdown' \in DoneDocs(r.markdown)
         /\ changes' = parseChanges(annotatedMarkdown')
         /\ UNCHANGED <<currentMarkdown, history>>]_vars

\* a proposal of one result was rejected while another stayed pending, the
\* check ran again, and its done event brought a different result: the change
\* list holds the changes of the new result only
C25_Witness ==
  /\ Len(history) = 1
  /\ Len(history[1].changes) = 2
  /\ annotatedMarkdown \in DoneDocs(currentMarkdown)
  /\ annotatedMarkdown # history[1].annotatedMarkdown
  /\ \E r \in ActiveRuns : r.terminal = "done"
  /\ Len(changes) = 2
  /\ changes = parseChanges(annotatedMarkdown)

\* ------------------------------------------------------------------------
\* One streamAnnotation call, fed by the generation service
\* ------------------------------------------------------------------------

InitStream ==
  /\ currentMarkdown = TheCatSat
  /\ annotatedMarkdown = Null
  /\ changes = <<>>
  /\ history = <<>>
  /\ checkValue = ""
  /\ runBtnDisabled = TRUE
  /\ bulkShown = FALSE
  /\ statusClass = ""
  /\ runs = EmptyBag
  /\ saves = <<>>
  /\ sink = currentMarkdown
  /\ stream \in {NewStream(d) : d \in StreamDocs}
  /\ codec = IdleCodec
  /\ engine = IdleEngine

NextStream ==
  \/ Begin
  \/ \E t \in BlockTypes : ContentBlockStart(t)
  \/ \E f \in Fragments : TextDelta(f)
  \/ StreamFinished
  \/ StreamThrows

SpecStream == InitStream /\ [][NextStream]_vars

\* ------------------------------------------------------------------------
\* Properties of one streamAnnotation call
\* ------------------------------------------------------------------------

IsTerminal(signal) == signal.type \in {"done", "error"}

\* the positions of the status `message` among the signals e
StatusAt(e, message) ==
  {i \in 1..Len(e) : e[i].type = "status" /\ e[i].message = message}

\* whether the call has yielded `done`
YieldedDone(st) == st.emitted # <<>> /\ st.emitted[Len(st.emitted)].type = "done"

\* the text the original blocks stand for: the header, then the blocks with a
\* blank line between them
C2_Original(st) == st.frontmatter \o Join(st.blocks, BlankLine)

\* C2: whatever the judgments are, recovering the document that reconstruct
\* returns gives the header followed by every original block unchanged.
C2_ReconstructKeepsContent ==
  YieldedDone(stream) =>
    recoverOriginal(stream.emitted[Len(stream.emitted)].annotated) = C2_Original(stream)

\* C8: a terminal signal (done or error) is the last signal, so there is at most
\* one, done and error never both occur and nothing follows an error; the call
\* has ended exactly when a terminal signal is out; every progress signal and
\* the Reconstructing status come before done; Thinking and Reviewing are each
\* yielded at most once, when the first reasoning / answer block starts.
C8_SignalProtocol ==
  /\ \A i \in 1..Len(stream.emitted) :
       IsTerminal(stream.emitted[i]) => i = Len(stream.emitted)
  /\ stream.pc = "closed" <=>
       (stream.emitted # <<>> /\ IsTerminal(stream.emitted[Len(stream.emitted)]))
  /\ YieldedDone(stream) =>
       StatusAt(stream.emitted, "Reconstructing") = {Len(stream.emitted) - 1}
  /\ ~YieldedDone(stream) => StatusAt(stream.emitted, "Reconstructing") = {}
  /\ Cardinality(StatusAt(stream.emitted, "Thinking")) =
       (IF stream.thinkingStarted THEN 1 ELSE 0)
  /\ Cardinality(StatusAt(stream.emitted, "Reviewing")) =
       (IF stream.textStarted THEN 1 ELSE 0)

\* a call that thought, answered, reported a block and ended with done
C8_Witness ==
  /\ YieldedDone(stream)
  /\ StatusAt(stream.emitted, "Thinking") # {}
  /\ StatusAt(stream.emitted, "Reviewing") # {}
  /\ \E i \in 1..Len(stream.emitted) : stream.emitted[i].type = "progress"

\* C10: when the call ends with done, the map it has built from the fragments
\* is the map parseModelOutput builds from the whole answer.
C10_FragmentationIndependent ==
  YieldedDone(stream) => stream.parsedOutput = parseModelOutput(stream.answer)

\* the judgments of an answer when no line is left out: a numbered line starts a
\* judgment and every other line, empty or not, continues the one being read
RECURSIVE C11_Fold(_, _, _)
C11_Fold(st, lines, i) ==
  IF i > Len(lines) THEN st
  ELSE C11_Fold(lineMatched(st, lines[i], NumberedLine(lines[i], i = Len(lines))),
                lines, i + 1)

C11_Expected(answer) ==
  finalizeBlock(C11_Fold(NewStream(<<>>), SplitLines(answer), 1)).parsedOutput

\* C11: when the call ends with done, the body recorded for each judgment is
\* made of every line the service sent for it: the rest of its numbered line,
\* then each later line without a leading number, empty lines included, in
\* order and separated by a newline (white space around the whole body apart).
C11_ContinuationLines ==
  YieldedDone(stream) => stream.parsedOutput = C11_Expected(stream.answer)

\* the progress signals among the signals e, in order
C12_Progress(e) == SelectSeq(e, LAMBDA signal : signal.type = "progress")

\* the bodies of the judgments of an answer, one per numbered line and in the
\* order of these lines; `open` tells that the last line has no newline after
\* it (it is then read at the end of the stream)
C12_Extend(bodies, line) ==
  IF bodies = <<>> THEN bodies
  ELSE [bodies EXCEPT ![Len(bodies)] = @ \o Newline \o line]

C12_Line(bodies, line, m) ==
  IF Trim(line) = <<>> THEN bodies
  ELSE IF m.ok THEN Append(bodies, m.content)
  ELSE C12_Extend(bodies, line)

RECURSIVE C12_Fold(_, _, _, _)
C12_Fold(bodies, lines, i, open) ==
  IF i > Len(lines) THEN bodies
  ELSE C12_Fold(C12_Line(bodies, lines[i],
                         NumberedLine(lines[i], open /\ i = Len(lines))),
                lines, i + 1, open)

C12_Bodies(text, open) == C12_Fold(<<>>, SplitLines(text), 1, open)

\* the part of the answer made of complete lines: all but the buffer
C12_Drained(st) == Slice(st.answer, 0, Len(st.answer) - Len(st.textBuffer))

\* the judgments whose body is complete: all of them once the stream has
\* ended, all but the one being read before
C12_Complete(st) ==
  IF YieldedDone(st) THEN C12_Bodies(st.answer, TRUE)
  ELSE SubSeq(C12_Bodies(C12_Drained(st), FALSE), 1,
              Max({Len(C12_Bodies(C12_Drained(st), FALSE)) - 1, 0}))

C12_Matches(p, bodies, total) ==
  /\ Len(p) = Len(bodies)
  /\ \A i \in 1..Len(p) :
       /\ p[i].current = i
       /\ p[i].total = total
       /\ p[i].blockStatus = (IF Trim(bodies[i]) = Lgtm THEN "lgtm" ELSE "changes")

\* C12: at every moment of a call the progress signals yielded so far are, in
\* order, one per judgment whose body is complete (a judgment is started by a
\* numbered line and complete at the next numbered line or at the end of the
\* stream), so a call that ends with done has yielded exactly one per
\* judgment; the i-th carries current = i, total = the number of blocks of the
\* document, and 'lgtm' exactly when the trimmed body is 'lgtm', else 'changes'.
C12_ProgressPerJudgment ==
  C12_Matches(C12_Progress(stream.emitted), C12_Complete(stream), Len(stream.blocks))

\* the third scenario: two judgments, the first 'lgtm', the second a change,
\* both reported when the call ends with done
C12_Witness ==
  /\ YieldedDone(stream)
  /\ Len(C12_Progress(stream.emitted)) = 2
  /\ C12_Progress(stream.emitted)[1].blockStatus = "lgtm"
  /\ C12_Progress(stream.emitted)[2].blockStatus = "changes"
  /\ stream.parsedOutput = (1 :> Lgtm @@ 2 :> InsXHi)

\* ------------------------------------------------------------------------
\* Reconstruction on its own: a split document, judgments, then reconstruct
\* ------------------------------------------------------------------------

ShortHeader == TripleDash \o <<"t">> \o ClosingDash

\* a text that spells out a deletion span, as a text about the grammar does
SpelledSpan == DelSpan(<<"q">>, <<"z">>)

\* the documents that are judged: a header and the lines of a body
JudgedDocs ==
  {NewEngine(<<>>, << <<"a", " ", "b">> >>, "full"),
   NewEngine(<<>>, << <<"a", "b">>, <<>>, <<"c">> >>, "full"),
   NewEngine(ShortHeader, << <<"a", " ", "b">>, <<>>, SpelledSpan >>, "full"),
   NewEngine(<<>>, << <<"a", " ", "b">> >>, "compact"),
   NewEngine(ShortHeader, << <<"a", " ", "b">>, <<>>, <<"b", " ", "a">> >>, "compact")}

\* judgments of a block of text t in full-block mode: approved; deleted as a
\* whole; its first character replaced, written as a deletion and an insertion
\* with a space between them; rewritten
FullJudgments(t) ==
  {Lgtm,
   DelSpan(<<"c">>, t),
   DelSpan(<<"c">>, <<Head(t)>>) \o <<" ">> \o InsSpan(<<"d">>, <<"y">>) \o Tail(t),
   <<"x">>}

\* compact spans as the service writes them
StrikeSpan(comment, inner) ==
  OpenLit(StrikeTag) \o <<" ">> \o CommentAttr \o comment \o <<"\"", ">">> \o inner
    \o CloseLit(StrikeTag)

PlainSpan(tag, body) == PlainOpen(tag) \o body \o CloseLit(tag)

\* judgments of a block of text t in compact mode: approved; its first
\* character deleted; its last character replaced; both; an insertion anchored
\* on its first character; an insertion without anchor; a deletion of text that
\* is not in the block
CompactJudgments(t) ==
  {Lgtm,
   StrikeSpan(<<"c">>, PlainSpan(DelTag, <<Head(t)>>)),
   StrikeSpan(<<"d">>, PlainSpan(DelTag, <<t[Len(t)]>>) \o PlainSpan(InsTag, <<"y">>)),
   StrikeSpan(<<"c">>, PlainSpan(DelTag, <<Head(t)>>)) \o <<" ">>
     \o StrikeSpan(<<"d">>, PlainSpan(DelTag, <<t[Len(t)]>>) \o PlainSpan(InsTag, <<"y">>)),
   <<Head(t)>> \o <<" ">> \o StrikeSpan(<<"e">>, PlainSpan(InsTag, <<"y">>)),
   StrikeSpan(<<"e">>, PlainSpan(InsTag, <<"y">>)),
   StrikeSpan(<<"c">>, PlainSpan(DelTag, <<"q">>))}

Judgments(mode, t) == IF mode = "full" THEN FullJudgments(t) ELSE CompactJudgments(t)

InitJudge ==
  /\ currentMarkdown = TheCatSat
  /\ annotatedMarkdown = Null
  /\ changes = <<>>
  /\ history = <<>>
  /\ checkValue = ""
  /\ runBtnDisabled = TRUE
  /\ bulkShown = FALSE
  /\ statusClass = ""
  /\ runs = EmptyBag
  /\ saves = <<>>
  /\ sink = currentMarkdown
  /\ stream = IdleStream
  /\ codec = IdleCodec
  /\ engine \in JudgedDocs

NextJudge ==
  \/ Segment
  \/ \E k \in 1..Len(engine.blocks) :
       \E j \in Judgments(engine.mode, engine.blocks[k]) : Judge(k, j)
  \/ ApproveAll
  \/ Reconstruct
  \/ ReconstructCompact

SpecJudge == InitJudge /\ [][NextJudge]_vars

\* block k has a judgment that is not the approval
C13_Judged(e, k) == k \in DOMAIN e.parsedOutput /\ e.parsedOutput[k] # Lgtm

\* the number of warnings recorded for block k
WarningsFor(e, k) == Cardinality({i \in DOMAIN e.warnings : e.warnings[i].block = k})

\* C13: in full-block mode a block whose judgment is present and is not 'lgtm'
\* is always emitted as the judgment with its adjacent pairs merged; exactly one
\* warning is recorded for it when stripping the annotations of that merged
\* judgment does not give the original block, and none when it does.
C13_TrustButVerify ==
  (engine.pc = "done" /\ engine.mode = "full") =>
    \A k \in 1..Len(engine.blocks) :
      C13_Judged(engine, k) =>
        /\ engine.resultBlocks[k] = mergeAdjacentAnnotations(engine.parsedOutput[k])
        /\ WarningsFor(engine, k) =
             (IF stripAnnotations(mergeAdjacentAnnotations(engine.parsedOutput[k]))
                   # engine.blocks[k]
              THEN 1 ELSE 0)

\* a reconstruction in which one block was rewritten (a warning, the judgment
\* emitted all the same) and another carries a merged replacement (no warning)
C13_Witness ==
  /\ engine.pc = "done" /\ engine.mode = "full"
  /\ engine.blocks = << <<"a", "b">>, <<"c">> >>
  /\ DOMAIN engine.parsedOutput = {1, 2}
  /\ engine.parsedOutput[1] = <<"x">>
  /\ engine.resultBlocks[1] = <<"x">>
  /\ engine.resultBlocks[2] = ReplSpan(<<"c">>, <<"y">>, <<"c">>)
  /\ engine.warnings = <<[block |-> 1, kind |-> "modified"]>>

\* every block has the judgment 'lgtm'
C14_AllApproved(e) ==
  /\ e.blocks # <<>>
  /\ \A k \in 1..Len(e.blocks) : k \in DOMAIN e.parsedOutput /\ e.parsedOutput[k] = Lgtm

\* C14: a block whose number is absent from the judgments is emitted identical to
\* the original with exactly one warning; a block judged 'lgtm' is emitted
\* identical to the original with no warning; when every block is 'lgtm' the
\* annotated document contains no change and there is no warning.
C14_PassThrough ==
  (engine.pc = "done" /\ engine.mode = "full") =>
    /\ \A k \in 1..Len(engine.blocks) :
         /\ k \notin DOMAIN engine.parsedOutput =>
              (engine.resultBlocks[k] = engine.blocks[k] /\ WarningsFor(engine, k) = 1)
         /\ (k \in DOMAIN engine.parsedOutput /\ engine.parsedOutput[k] = Lgtm) =>
              (engine.resultBlocks[k] = engine.blocks[k] /\ WarningsFor(engine, k) = 0)
    /\ C14_AllApproved(engine) =>
         (parseChanges(engine.annotated) = <<>> /\ engine.warnings = <<>>)

\* C15: whenever a call of spliceAnnotation returns a warning (it could not
\* place the tag by finding its deletion body or its anchor phrase in the block
\* text it was given), the block text it returns is the text it was given.
C15_NeverGuesses ==
  \A i \in DOMAIN engine.splices :
    engine.splices[i].warning # "" => engine.splices[i].result = engine.splices[i].given

\* the spans of a text, in the order of the text
RECURSIVE C16_SpansFrom(_, _)
C16_SpansNext(s, k) ==
  IF k = -1 THEN <<>>
  ELSE <<Slice(s, k, StrikeMatchAt(s, k).end)>> \o C16_SpansFrom(s, StrikeMatchAt(s, k).end)

C16_SpansFrom(s, i) == C16_SpansNext(s, NextStrikeFrom(s, i))

\* the calls of spliceAnnotation made for block k, in the order they were made
C16_Splices(e, k) == SelectSeq(e.splices, LAMBDA c : c.block = k)

\* the span of an annotation: the annotation without its anchor
C16_Tag(annotation) == SliceFrom(annotation, IndexOfFrom(annotation, OpenLit(StrikeTag), 0))

\* C16: in compact mode, for a block whose judgment holds one or several tags
\* that were all placed without warning, resolving every span of the
\* reconstructed block to its deletion content gives the original block, and the
\* spans of the reconstructed block are, in the order of the text, the tags in
\* the order they were spliced (so they do not overlap).
C16_CompactRecovery ==
  (engine.pc = "done" /\ engine.mode = "compact") =>
    \A k \in 1..Len(engine.blocks) :
      (C16_Splices(engine, k) # <<>> /\ WarningsFor(engine, k) = 0) =>
        /\ recoverOriginalStrike(engine.resultBlocks[k]) = engine.blocks[k]
        /\ C16_SpansFrom(engine.resultBlocks[k], 0) =
             [i \in DOMAIN C16_Splices(engine, k) |->
                C16_Tag(C16_Splices(engine, k)[i].annotation)]

\* ------------------------------------------------------------------------
\* Segmentation on its own: a document is written, split, rejoined
\* ------------------------------------------------------------------------

\* '---\ntitle: x\n---\n'
TitleHeader ==
  TripleDash \o <<"t", "i", "t", "l", "e", ":", " ", "x">> \o ClosingDash

Headers == {<<>>, TitleHeader}

\* the lines a body is written with: two of text (one ends in a space), an
\* empty one, one of white space, a fence, a fence with a language tag
BodyLines ==
  {<<"a">>, <<"b", " ">>, <<>>, <<" ">>, Fence, Fence \o <<"j">>}

InitSplit ==
  /\ currentMarkdown = TheCatSat
  /\ annotatedMarkdown = Null
  /\ changes = <<>>
  /\ history = <<>>
  /\ checkValue = ""
  /\ runBtnDisabled = TRUE
  /\ bulkShown = FALSE
  /\ statusClass = ""
  /\ runs = EmptyBag
  /\ saves = <<>>
  /\ sink = currentMarkdown
  /\ stream = IdleStream
  /\ codec = IdleCodec
  /\ engine \in {NewEngine(h, <<>>, "full") : h \in Headers}

NextSplit ==
  \/ \E line \in BodyLines : WriteLine(line)
  \/ Segment
  \/ ApproveAll
  \/ Reconstruct

SpecSplit == InitSplit /\ [][NextSplit]_vars

\* the document has been split
IsSplit(e) == e.pc \in {"split", "done"}

\* line i of the body starts with the fence marker
C17_IsFence(lines, i) == StartsWithAt(lines[i], 0, Fence)

\* line i lies inside a fenced region: the opening line does, the closing one
\* does not, and a region that is never closed runs to the end
C17_InFence(lines, i) ==
  Cardinality({j \in 1..i : C17_IsFence(lines, j)}) % 2 = 1

\* line i is a blank line outside a fenced region: a separator
C17_Separates(lines, i) == ~C17_InFence(lines, i) /\ Trim(lines[i]) = <<>>

\* the last line of the run of lines without separator that starts at line i
C17_RunEnd(lines, i) ==
  Max({b \in i..Len(lines) : \A m \in i..b : ~C17_Separates(lines, m)})

\* the runs of lines between separators, each joined and trimmed at its end
RECURSIVE C17_RunsFrom(_, _)
C17_Run(lines, i, b) ==
  <<TrimEnd(Join(SubSeq(lines, i, b), Newline))>> \o C17_RunsFrom(lines, b + 1)

C17_RunsFrom(lines, i) ==
  IF i > Len(lines) THEN <<>>
  ELSE IF C17_Separates(lines, i) THEN C17_RunsFrom(lines, i + 1)
  ELSE C17_Run(lines, i, C17_RunEnd(lines, i))

\* C17: the blocks are the runs of body lines between the blank lines that lie
\* outside a fenced region: such a blank line between two other lines always
\* puts them in different blocks, a blank line inside a fenced region never ends
\* a block, a line starting with the fence marker opens or closes a region
\* whatever follows the marker, and after a fence that is never closed every
\* line belongs to the same block.
C17_FenceAware ==
  IsSplit(engine) => engine.blocks = C17_RunsFrom(engine.lines, 1)

\* a fence with a language tag that is never closed: the blank line after it
\* does not end the block, the one before it does
C17_Witness ==
  /\ IsSplit(engine)
  /\ engine.lines = << <<"a">>, <<>>, Fence \o <<"j">>, <<>>, <<"b", " ">> >>
  /\ engine.blocks = << <<"a">>, Fence \o <<"j", "\n", "\n", "b">> >>

\* the body lines that are non-blank or lie inside a fenced region, in order
C18_Kept(lines) ==
  SelectSeq([i \in DOMAIN lines |-> [at |-> i, line |-> lines[i]]],
            LAMBDA l : ~C17_Separates(lines, l.at))

C18_Text(kept, m) == Join([i \in 1..m |-> kept[i].line], Newline)

\* the lines `kept` are shared out among the blocks: each block is some of the
\* lines, taken in order and joined, without the white space at its end
RECURSIVE C18_SharedOut(_, _)
C18_SharedOut(kept, blocks) ==
  IF blocks = <<>> THEN kept = <<>>
  ELSE \E m \in 1..Len(kept) :
         /\ TrimEnd(C18_Text(kept, m)) = Head(blocks)
         /\ C18_SharedOut(SubSeq(kept, m + 1, Len(kept)), Tail(blocks))

\* C18: every block is non-empty, not white space only and has no white space
\* at its end; the blocks are in document order and every body line that is
\* non-blank or lies inside a fenced region is in exactly one block, in its
\* original order, up to the white space trimmed at the end of a block.
C18_LosesNothing ==
  IsSplit(engine) =>
    /\ \A k \in 1..Len(engine.blocks) :
         /\ Trim(engine.blocks[k]) # <<>>
         /\ TrimEnd(engine.blocks[k]) = engine.blocks[k]
    /\ C18_SharedOut(C18_Kept(engine.lines), engine.blocks)

\* two blocks, each trimmed at its end: the first of a space, the second of a
\* line of white space inside a fence
C18_Witness ==
  /\ IsSplit(engine)
  /\ engine.lines = << <<"b", " ">>, <<>>, Fence, <<"a">>, <<" ">> >>
  /\ engine.blocks = << <<"b">>, Fence \o <<"\n", "a">> >>

\* the text `rest` is the blocks from the i-th on, each followed by white space
\* only (what was trimmed from its end and what separated it from the next)
RECURSIVE C19_BlocksThenSpace(_, _, _)
C19_BlocksThenSpace(rest, blocks, i) ==
  IF i > Len(blocks) THEN rest = <<>>
  ELSE /\ StartsWithAt(rest, 0, blocks[i])
       /\ \E k \in Len(blocks[i])..SkipWs(rest, Len(blocks[i])) :
            C19_BlocksThenSpace(SliceFrom(rest, k), blocks, i + 1)

\* C19: what reconstruct returns when every block is 'lgtm' is the header
\* followed by the blocks rejoined, and that is the document itself except for
\* the white space trimmed from the end of each block: the document is the same
\* header and the same blocks in order, with white space only after each block.
C19_RoundTrip ==
  (engine.pc = "done" /\ C14_AllApproved(engine)) =>
    /\ StartsWithAt(engineMarkdown(engine), 0, engine.frontmatter)
    /\ C19_BlocksThenSpace(SliceFrom(engineMarkdown(engine), Len(engine.frontmatter)),
                           engine.blocks, 1)
    /\ engine.annotated = engine.frontmatter \o Join(engine.blocks, BlankLine)

\* a line of a paragraph: not blank, not a fence
C20_IsParagraph(line) == Trim(line) # <<>> /\ ~StartsWithAt(line, 0, Fence)

\* two paragraphs of one line each with one blank line between them
C20_TwoParagraphs(lines) ==
  /\ Len(lines) = 3
  /\ C20_IsParagraph(lines[1]) /\ lines[2] = <<>> /\ C20_IsParagraph(lines[3])

\* the same inside a fenced region, closed or not
C20_Fenced(lines) ==
  /\ Len(lines) \in {4, 5}
  /\ StartsWithAt(lines[1], 0, Fence)
  /\ C20_TwoParagraphs(SubSeq(lines, 2, 4))
  /\ Len(lines) = 5 => StartsWithAt(lines[5], 0, Fence)

\* the document of the second scenario has been split into n blocks when its
\* blank line is inside a fenced region, into m blocks when it is outside
C20_Counts(e, n, m) ==
  (IsSplit(e) /\ e.header = TitleHeader) =>
    /\ C20_Fenced(e.lines) => Len(e.blocks) = n
    /\ C20_TwoParagraphs(e.lines) => Len(e.blocks) = m

\* C20 as stated: for the header '---\ntitle: x\n---\n' followed by two
\* paragraphs separated by one blank line, splitIntoBlocks yields 2 blocks when
\* the blank line is inside a fenced region and 3 blocks when it is outside.
C20_Scenario2Stated == C20_Counts(engine, 2, 3)

\* C20 amended: for that document splitIntoBlocks yields 1 block when the blank
\* line is inside a fenced region and 2 blocks when it is outside; the header
\* is returned apart, as the frontmatter, and is not one of the blocks.
C20_Scenario2 ==
  /\ C20_Counts(engine, 1, 2)
  /\ (IsSplit(engine) /\ engine.header = TitleHeader) =>
       engine.frontmatter = TitleHeader

\* the second scenario with its blank line inside a closed fence: one block
C20_Witness ==
  /\ IsSplit(engine)
  /\ engine.header = TitleHeader
  /\ engine.lines = <<Fence, <<"a">>, <<>>, <<"b", " ">>, Fence>>
  /\ engine.frontmatter = TitleHeader
  /\ engine.blocks = << Fence \o <<"\n", "a", "\n", "\n", "b", " ", "\n">> \o Fence >>

\* ------------------------------------------------------------------------
\* The page on what reconstruct returns
\* ------------------------------------------------------------------------

\* a header that spells out an insertion span
MarkedHeader == TripleDash \o InsSpan(<<"q">>, <<"x">>) \o ClosingDash

\* files the page may be opened on: one block, one block and the newline that
\* ends the file, two blocks, a header and one block
DerivedFiles ==
  {<<"a", "b">>, <<"a", "b", "\n">>, <<"a", "\n", "\n", "b">>,
   ShortHeader \o <<"a", "b">>, MarkedHeader \o <<"a", "b">>}

\* judgments of the blocks of a document: every block approved, or the first
\* character of block 1 replaced and the other blocks approved
judgmentsOf(blocks) ==
  {[i \in DOMAIN blocks |-> Lgtm]}
    \cup {[i \in DOMAIN blocks |->
             IF i = 1 THEN ReplSpan(<<"c">>, <<"z">>, <<Head(blocks[1])>>) \o Tail(blocks[1])
             ELSE Lgtm] : k \in {1} \cap DOMAIN blocks}

\* the annotated text streamAnnotation ends with on the split of a document
annotatedOf(split, parsedOutput) ==
  reconstruct(parsedOutput, split.frontmatter, split.blocks).annotated

\* the annotated texts a run on markdown may end with
RunResults(markdown) ==
  {annotatedOf(splitIntoBlocks(markdown), j) :
     j \in judgmentsOf(splitIntoBlocks(markdown).blocks)}

\* the page after init() on one of the files and the choice of a check
InitDerive ==
  /\ currentMarkdown \in DerivedFiles
  /\ annotatedMarkdown = Null
  /\ changes = <<>>
  /\ history = <<>>
  /\ checkValue = "check"
  /\ runBtnDisabled = FALSE
  /\ bulkShown = FALSE
  /\ statusClass = ""
  /\ runs = EmptyBag
  /\ saves = <<>>
  /\ sink = currentMarkdown
  /\ stream = IdleStream
  /\ codec = IdleCodec
  /\ engine = IdleEngine

\* runs that end with what reconstruct returns, and a reviewer who decides and
\* undoes only while no run is in flight, at most MaxHist decisions deep
NextDerive ==
  \/ RunClick
  \/ \E r \in ActiveRuns : RespOk(r)
  \/ \E r \in ActiveRuns : \E doc \in RunResults(r.markdown) : HandleDone(r, doc)
  \/ \E r \in ActiveRuns : StreamEnd(r)
  \/ (runs = EmptyBag /\ Len(history) < MaxHist /\ AcceptOne)
  \/ (runs = EmptyBag /\ Len(history) < MaxHist /\ RejectOne)
  \/ (runs = EmptyBag /\ Len(history) < MaxHist /\ AcceptEvery)
  \/ (runs = EmptyBag /\ Len(history) < MaxHist /\ RejectAll)
  \/ (runs = EmptyBag /\ Undo)
  \/ \E k \in DOMAIN saves : SaveOk(k)

SpecDerive == InitDerive /\ [][NextDerive]_vars

\* C26: whenever the session has an annotated text, the plain text is what
\* recoverOriginal gives for it.
C26_DerivedPlainText ==
  annotatedMarkdown # Null => currentMarkdown = recoverOriginal(annotatedMarkdown)

\* the header region splitIntoBlocks finds in a text
C27_Header(s) == splitIntoBlocks(s).frontmatter

C27_StartsWith(s, h) == s # Null /\ Len(s) >= Len(h) /\ SubSeq(s, 1, Len(h)) = h

\* C27: the annotated text a run ends with begins with the header of the
\* document the run was given, and after accept, reject, acceptAll, rejectAll
\* and an undo that restores a snapshot both the annotated text and the plain
\* text begin with the header the annotated text had before.
C27_HeaderUntouched ==
  [][/\ \A r \in ActiveRuns :
          C25_DoneStep(r) => C27_StartsWith(annotatedMarkdown', C27_Header(r.markdown))
     /\ (Mutated \/ EffectiveUndo) =>
          /\ C27_StartsWith(annotatedMarkdown', C27_Header(annotatedMarkdown))
          /\ C27_StartsWith(currentMarkdown', C27_Header(annotatedMarkdown))]_vars

\* ------------------------------------------------------------------------
\* The codec on its own: an annotator writes spans, then the text is recovered
\* ------------------------------------------------------------------------

InitCodec ==
  /\ currentMarkdown = TheCatSat
  /\ annotatedMarkdown = Null
  /\ changes = <<>>
  /\ history = <<>>
  /\ checkValue = ""
  /\ runBtnDisabled = TRUE
  /\ bulkShown = FALSE
  /\ statusClass = ""
  /\ runs = EmptyBag
  /\ saves = <<>>
  /\ sink = currentMarkdown
  /\ stream = IdleStream
  /\ codec \in {Codec(o, 0, <<>>, 0, Null) : o \in Originals}
  /\ engine = IdleEngine

SpanLengths == 1..Max({Len(o) : o \in Originals})

NextCodec ==
  \/ CopyChar
  \/ \E n \in SpanLengths, c \in AttrTexts : WrapDeletion(n, c)
  \/ \E n \in SpanLengths, c \in AttrTexts, r \in AttrTexts : WrapReplacement(n, c, r)
  \/ \E c \in AttrTexts, t \in InsTexts : InsertSpan(c, t)
  \/ Recover

SpecCodec == InitCodec /\ [][NextCodec]_vars

\* C1: once every character of the original is either copied or wrapped as the
\* body of a deletion or replacement span, insertion spans added anywhere,
\* recoverOriginal gives back the original exactly.
C1_RecoveryRoundTrip == codec.recovered # Null => codec.recovered = codec.original

\* ------------------------------------------------------------------------
\* validate on what an annotator writes, malformed markup included
\* ------------------------------------------------------------------------

\* lengths of the bodies of deletions: the empty body is one of them
BodyLengths == 0..Max({Len(o) : o \in Originals})

NextValidate ==
  \/ CopyChar
  \/ \E n \in BodyLengths : WrapDeletion(n, <<"c">>)
  \/ \E n \in SpanLengths, r \in AttrTexts : WrapReplacement(n, <<"c">>, r)
  \/ \E t \in InsTexts : InsertSpan(<<"c">>, t)
  \/ \E m \in Markers : WriteMarker(m)
  \/ Validate

SpecValidate == InitCodec /\ [][NextValidate]_vars

\* the text holds one change, a deletion with an empty body and no replaceWith
C28_EmptyDeletion(a) ==
  /\ Len(parseChanges(a)) = 1
  /\ parseChanges(a)[1].deleted = <<>>
  /\ parseChanges(a)[1].inserted = Null

\* the change carries neither text to delete nor text to insert
C28_NoContent(change) ==
  /\ change.deleted \in {Null, <<>>}
  /\ change.inserted \in {Null, <<>>}

\* one problem for every change of chs, from the i-th on, that carries nothing
RECURSIVE C28_Expected(_, _)
C28_Expected(chs, i) ==
  IF i > Len(chs) THEN <<>>
  ELSE (IF C28_NoContent(chs[i]) THEN <<[kind |-> "neither", change |-> i - 1]>> ELSE <<>>)
         \o C28_Expected(chs, i + 1)

C28_IsNeither(e) == e.kind = "neither"

\* C28: validate on a text whose only change is an empty deletion without
\* replaceWith returns one problem, "neither deletion nor insertion"; on any
\* text it returns that problem once for every change that carries neither
\* deleted nor inserted text.
C28_Scenario4 ==
  codec.validated =>
    /\ C28_EmptyDeletion(codec.annotated) =>
         codec.errors = <<[kind |-> "neither", change |-> 0]>>
    /\ SelectSeq(codec.errors, C28_IsNeither)
         = C28_Expected(parseChanges(codec.annotated), 1)

\* the text holds an opening or a closing marker of a deletion or an insertion
C29_HasMarkup(s) ==
  \/ Includes(s, OpenLit(DelTag)) \/ Includes(s, CloseLit(DelTag))
  \/ Includes(s, OpenLit(InsTag)) \/ Includes(s, CloseLit(InsTag))

C29_Flagged(errors) == \E i \in DOMAIN errors : errors[i].kind = "artifacts"

\* C29: validate returns the residual-markup problem exactly when what
\* recoverOriginal makes of the text still holds an opening or closing marker
\* of a deletion or an insertion.
C29_FlagsLeftovers ==
  codec.validated =>
    (C29_Flagged(codec.errors) <=> C29_HasMarkup(recoverOriginal(codec.annotated)))

\* ------------------------------------------------------------------------
\* An insertion next to a deletion, merged by reconstruct and read by parseChanges
\* ------------------------------------------------------------------------

MaxPieces == 3   \* pieces the text of an insertion is made of

\* what the texts of insertions are made of: the two characters escapeAttr
\* replaces, the rest of the two entities, a letter
Pieces ==
  {Amp, Quote, <<"a", "m", "p", ";">>, <<"q", "u", "o", "t", ";">>, <<"x">>}

\* the texts made of at most n pieces
RECURSIVE PieceTexts(_)
PieceTexts(n) ==
  IF n = 0 THEN {<<>>}
  ELSE PieceTexts(n - 1) \cup {t \o p : t \in PieceTexts(n - 1), p \in Pieces}

EscapeTexts == PieceTexts(MaxPieces)

\* white space the answer puts between the two spans
Gaps == {<<>>, <<" ">>}

\* the judgments of block t that delete its first character and insert body:
\* the deletion first, or the insertion first
DelThenIns(t, gap, body) ==
  DelSpan(<<"c">>, <<Head(t)>>) \o gap \o InsSpan(<<"d">>, body) \o Tail(t)

InsThenDel(t, gap, body) ==
  InsSpan(<<"d">>, body) \o gap \o DelSpan(<<"c">>, <<Head(t)>>) \o Tail(t)

PairJudgments(t) ==
  {DelThenIns(t, g, b) : g \in Gaps, b \in EscapeTexts}
    \cup {InsThenDel(t, g, b) : g \in Gaps, b \in EscapeTexts}

\* a document of one block, about to be split
InitEscape ==
  /\ currentMarkdown = TheCatSat
  /\ annotatedMarkdown = Null
  /\ changes = <<>>
  /\ history = <<>>
  /\ checkValue = ""
  /\ runBtnDisabled = TRUE
  /\ bulkShown = FALSE
  /\ statusClass = ""
  /\ runs = EmptyBag
  /\ saves = <<>>
  /\ sink = currentMarkdown
  /\ stream = IdleStream
  /\ codec = IdleCodec
  /\ engine = NewEngine(<<>>, << <<"a", "b">> >>, "full")

NextEscape ==
  \/ Segment
  \/ \E k \in 1..Len(engine.blocks) :
       \E j \in PairJudgments(engine.blocks[k]) : Judge(k, j)
  \/ Reconstruct

SpecEscape == InitEscape /\ [][NextEscape]_vars

\* the judgment of block 1 is a deletion and an insertion of body, side by side
C30_Pair(e, body) ==
  /\ DOMAIN e.parsedOutput = {1}
  /\ \E g \in Gaps :
       e.parsedOutput[1] \in {DelThenIns(e.blocks[1], g, body), InsThenDel(e.blocks[1], g, body)}

\* the annotated text holds one change, which replaces the first character of
\* the block by body
C30_Reported(e, body) ==
  /\ Len(parseChanges(e.annotated)) = 1
  /\ parseChanges(e.annotated)[1].deleted = <<Head(e.blocks[1])>>
  /\ parseChanges(e.annotated)[1].inserted = body

\* C30: unescaping, &quot; first and &amp; second, undoes escapeAttr on the
\* text of every insertion the answer holds, and when reconstruct has merged a
\* deletion and the insertion next to it into one span, the inserted text
\* parseChanges reports is the body of that insertion.
C30_EscapeRoundTrip ==
  \A body \in EscapeTexts :
    C30_Pair(engine, body) =>
      /\ unescapeAttr(escapeAttr(body)) = body
      /\ engine.pc = "done" => C30_Reported(engine, body)

\* the insertion of the text '&quot;' was merged: the attribute holds it
\* escaped, and parseChanges reports the text itself
C30_Witness ==
  /\ engine.pc = "done"
  /\ C30_Pair(engine, QuotEntity)
  /\ engine.annotated
       = ReplSpan(<<"c">>, AmpEntity \o <<"q", "u", "o", "t", ";">>, <<"a">>) \o <<"b">>
  /\ parseChanges(engine.annotated)[1].inserted = QuotEntity

\* the changes chs lie in text a in document order, none empty, none
\* overlapping the next, each at the offsets of the text it matched
C31_WellFormed(a, chs) ==
  \A i \in DOMAIN chs :
    /\ 0 <= chs[i].startOffset
    /\ chs[i].startOffset < chs[i].endOffset
    /\ chs[i].endOffset <= Len(a)
    /\ Slice(a, chs[i].startOffset, chs[i].endOffset) = chs[i].fullMatch
    /\ i < Len(chs) => chs[i].endOffset <= chs[i + 1].startOffset

\* C31: what parseChanges returns for the annotated text is in document order,
\* without overlap and at the offsets of the matches, and the change list of
\* the session is that list: after done, after every mutation, after undo.
C31_ChangeListWellFormed ==
  IF annotatedMarkdown = Null THEN changes = <<>>
  ELSE /\ C31_WellFormed(annotatedMarkdown, parseChanges(annotatedMarkdown))
       /\ changes = parseChanges(annotatedMarkdown)

\* a decision on a text with two changes was undone: both are back in the
\* list, and the save of the undo is in flight
C31_Witness ==
  /\ annotatedMarkdown # Null
  /\ history = <<>>
  /\ Len(saves) = 1
  /\ Len(changes) = 2
  /\ changes[1].endOffset <= changes[2].startOffset

\* C32: with no change pending, acceptAll and rejectAll of the session leave
\* the annotated text and the plain text as they are, and so do the functions
\* acceptAll and recoverOriginal on the annotated text.
C32_Idempotent ==
  [][(changes = <<>> /\ (AcceptEvery \/ RejectAll)) =>
       /\ annotatedMarkdown' = annotatedMarkdown
       /\ currentMarkdown' = currentMarkdown
       /\ acceptAll(annotatedMarkdown) = annotatedMarkdown
       /\ recoverOriginal(annotatedMarkdown) = annotatedMarkdown]_vars


\* ------------------------------------------------------------------------
\* Deletions and insertions that reconstruct merges
\* ------------------------------------------------------------------------

MaxItems == 4   \* spans, letters and white space a judgment is made of

FirstDel == DelSpan(<<"a">>, <<"x">>)
SecondDel == DelSpan(<<"b">>, <<"z">>)
OneIns == InsSpan(<<"c">>, <<"w">>)

\* what a judgment is made of: two deletions, an insertion, a letter, a space,
\* a line break
MergeItems == {FirstDel, SecondDel, OneIns, <<"y">>, <<" ">>, Newline}

RECURSIVE ItemTexts(_)
ItemTexts(n) ==
  IF n = 0 THEN {<<>>}
  ELSE ItemTexts(n - 1) \cup {t \o p : t \in ItemTexts(n - 1), p \in MergeItems}

\* the judgments parseModelOutput can hand over: trimmed, not empty, without a
\* blank line
MergeJudgments ==
  {t \in ItemTexts(MaxItems) : t # <<>> /\ Trim(t) = t /\ ~Includes(t, BlankLine)}

\* a document of one block, about to be split
InitMerge ==
  /\ currentMarkdown = TheCatSat
  /\ annotatedMarkdown = Null
  /\ changes = <<>>
  /\ history = <<>>
  /\ checkValue = ""
  /\ runBtnDisabled = TRUE
  /\ bulkShown = FALSE
  /\ statusClass = ""
  /\ runs = EmptyBag
  /\ saves = <<>>
  /\ sink = currentMarkdown
  /\ stream = IdleStream
  /\ codec = IdleCodec
  /\ engine = NewEngine(<<>>, << <<"x", "y">> >>, "full")

NextMerge ==
  \/ Segment
  \/ \E k \in 1..Len(engine.blocks) : \E j \in MergeJudgments : Judge(k, j)
  \/ Reconstruct

SpecMerge == InitMerge /\ [][NextMerge]_vars

\* white space between two spans that are next to each other
RECURSIVE WsTexts(_)
WsTexts(n) ==
  IF n = 0 THEN {<<>>}
  ELSE WsTexts(n - 1) \cup {t \o p : t \in WsTexts(n - 1), p \in {<<" ">>, Newline}}

MergeGaps == WsTexts(MaxItems)

\* the deletions of the judgments, each with its body
MergeDels ==
  {[span |-> FirstDel, body |-> <<"x">>], [span |-> SecondDel, body |-> <<"z">>]}

\* text t holds a deletion of del and an insertion of ins with nothing but
\* white space between them, in either order
C33_SideBySide(t, del, ins) ==
  /\ ins = <<"w">>
  /\ \E d \in MergeDels :
       /\ d.body = del
       /\ \E g \in MergeGaps :
            \/ Includes(t, d.span \o g \o OneIns)
            \/ Includes(t, OneIns \o g \o d.span)

\* the spans of text t that carry a replaceWith
C33_MergedSpans(t) ==
  {i \in DOMAIN parseChanges(t) :
     parseChanges(t)[i].deleted # Null /\ parseChanges(t)[i].inserted # Null}

C33_NoPair(t) ==
  \A del \in {<<"x">>, <<"z">>} : ~C33_SideBySide(t, del, <<"w">>)

C33_Judged(e) == e.pc = "done" /\ 1 \in DOMAIN e.parsedOutput

\* C33: every span mergeAdjacentAnnotations has made holds the body of a
\* deletion of the judgment as its deleted text and the body of the insertion
\* right next to that deletion (white space only between them) as its
\* replaceWith, and a judgment without such a pair is left as it is.
C33_NeighboursOnly ==
  C33_Judged(engine) =>
    /\ \A i \in C33_MergedSpans(engine.resultBlocks[1]) :
         C33_SideBySide(engine.parsedOutput[1],
                        parseChanges(engine.resultBlocks[1])[i].deleted,
                        parseChanges(engine.resultBlocks[1])[i].inserted)
    /\ C33_NoPair(engine.parsedOutput[1]) =>
         engine.resultBlocks[1] = engine.parsedOutput[1]


\* C34: merging leaves the recovered text alone: stripping the annotations of
\* the merged judgment gives what stripping the annotations of the judgment
\* gives, whatever white space lies between the deletion and the insertion.
C34_MergeKeepsRecovered ==
  C33_Judged(engine) =>
    stripAnnotations(engine.resultBlocks[1]) = stripAnnotations(engine.parsedOutput[1])


\* C35: every progress signal of a call carries a count within range:
\* 1 <= current <= total, whatever the answer holds.
C35_ProgressInRange ==
  \A i \in DOMAIN C12_Progress(stream.emitted) :
    /\ 1 <= C12_Progress(stream.emitted)[i].current
    /\ C12_Progress(stream.emitted)[i].current <= C12_Progress(stream.emitted)[i].total


\* C36: the result of a run is never stale: when a done event is handled, the
\* plain text of the session is the text the request of that run carried (no
\* accept, reject, acceptAll, rejectAll or undo has changed it in between).
C36_NeverStale ==
  [][\A r \in ActiveRuns : C25_DoneStep(r) => r.markdown = currentMarkdown]_vars


\* ------------------------------------------------------------------------
\* The file behind the session: every save request succeeds
\* ------------------------------------------------------------------------

NextSave ==
  \/ AcceptOne
  \/ RejectOne
  \/ AcceptEvery
  \/ RejectAll
  \/ Undo
  \/ \E k \in DOMAIN saves : SaveOk(k)

SpecSave == InitReview /\ [][NextSave]_vars

\* C37: once every save request has completed, the file holds the plain text
\* of the session: no request issued earlier has written over the content of
\* a request issued later.
C37_SinkConverges == saves = <<>> => sink = currentMarkdown

====
